---- MODULE Spec2Model ----
(***************************************************************************)
(* A model of rallevondalle/email_imap_to_json: the store merger           *)
(* (EmailProcessor._merge_emails, save_to_json, generate_summary), the     *)
(* importance scorer (EmailProcessor._calculate_importance_score), the     *)
(* thread analysis of analyze_emails.py, the body selection and the date   *)
(* recovery of EmailProcessor._parse_email, the IMAP sessions of           *)
(* list_folders, fetch_emails and count_emails, the maintenance scripts    *)
(* update_scores.py and fix_json.py, and parse_date of fix_json.py and     *)
(* check_json.py.                                                          *)
(*                                                                         *)
(* The specifications share the variables:                                 *)
(*   SpecMerge    _merge_emails as a function of two message lists         *)
(*   Spec         the persisted collection file under save_to_json         *)
(*   SpecScore    the scorer of a constructed EmailProcessor               *)
(*   SpecAnalyze  fetch, save and analysis of a folder's collection        *)
(*   SpecBody     the body _parse_email takes from a MIME message          *)
(*   SpecFetch    one IMAP session of an operation of EmailProcessor       *)
(*   SpecTools    the collection file under the maintenance scripts        *)
(*   SpecDate     parse_date applied to date strings                       *)
(*   SpecRecover  the date _parse_email stores for a message               *)
(***************************************************************************)
EXTENDS Integers, Sequences, FiniteSets, TLC

VARIABLES
    existing_emails,  \* _merge_emails: the list passed as existing_emails
    new_emails,       \* _merge_emails: the list passed as new_emails
    merged,           \* _merge_emails: what the call returned or raised
    output_file,      \* the persisted collection file of save_to_json
    emails,           \* the batch handed to save_to_json
    saved,            \* the outcome of the last save_to_json call
    scoring_config,   \* EmailProcessor.scoring_config
    blacklist,        \* EmailProcessor.blacklist, a list of lower-cased lines
    contacts,         \* EmailProcessor.contacts, None or the five sets
    email_data,       \* the message dict handed to the scorer
    score,            \* what the scorer returned for email_data
    pc,               \* where main is in its loop over the folders
    stats,            \* analyze_emails: the counters of the last analysis
    mime_message,     \* _parse_email: the MIME message being parsed
    mailbox,          \* the folder on the IMAP server
    imap,             \* the commands sent to the server, in order
    call,             \* the arguments and the faults of the last IMAP call
    fetched,          \* what fetch_emails or count_emails returned
    date_texts,       \* the date strings handed to parse_date, in order
    parsed_dates      \* what parse_date gave for each of them so far

vars == <<existing_emails, new_emails, merged, output_file, emails, saved, pc,
          scoring_config, blacklist, contacts, email_data, score,
          stats, mime_message, mailbox, imap, call, fetched,
          date_texts, parsed_dates>>

mergeVars == <<existing_emails, new_emails, merged>>
saveVars == <<output_file, emails, saved, pc>>
scoreVars == <<scoring_config, blacklist, contacts, email_data, score>>
analyzeVars == <<stats>>
bodyVars == <<mime_message>>
fetchVars == <<mailbox, imap, call, fetched>>
dateVars == <<date_texts, parsed_dates>>

----------------------------------------------------------------------------
(* Bounds of the model. *)

\* longest list passed as existing_emails in SpecMerge
MaxExisting == 2

\* longest list passed as new_emails in SpecMerge
MaxIncoming == 1

\* the instants a date can denote (seconds on some scale; 0 is datetime.min)
Times == {1, 2}

\* the Message-ID header values; "" is the empty identifier
MessageIds == {"", "<a>", "<b>"}

RECURSIVE SeqsOfLen(_, _)
SeqsOfLen(S, n) ==
    IF n = 0 THEN {<<>>}
    ELSE {Append(s, x) : s \in SeqsOfLen(S, n - 1), x \in S}

BoundedSeq(S, n) == UNION {SeqsOfLen(S, k) : k \in 0..n}

----------------------------------------------------------------------------
(* The date field of a message dict: None, or a string in one of the       *)
(* formats the code meets.  t is the UTC instant the string denotes.       *)

None == [fmt |-> "None", t |-> 0]
IsoDate(t) == [fmt |-> "iso8601", t |-> t]             \* datetime.isoformat()
Rfc2822Date(t) == [fmt |-> "rfc2822", t |-> t]         \* "Mon, 1 Jan 2024 10:00:00 +0000"
Rfc2822NoZone(t) == [fmt |-> "rfc2822_nozone", t |-> t] \* "Mon, 1 Jan 2024 10:00:00 -0000"
Garbage == [fmt |-> "garbage", t |-> 0]                \* no date at all in the text

\* datetime values: aware or naive, ordered by t among values of one kind
DatetimeMin == [aware |-> FALSE, t |-> 0]
Aware(t) == [aware |-> TRUE, t |-> t]
Naive(t) == [aware |-> FALSE, t |-> t]

\* "2024-01-01T10:00:00Z" and "2024-01-01T10:00:00": ISO-8601 with a
\* trailing Z, and with no offset at all
Iso8601Z(t) == [fmt |-> "iso8601_z", t |-> t]
Iso8601Naive(t) == [fmt |-> "iso8601_naive", t |-> t]
\* "Date: Mon, 1 Jan 2024 10:00:00 +0000": a header line, name included
HeaderLine(t) == [fmt |-> "header_line", t |-> t]
\* "2024-01-01T10:00:00.5 +0000" and "2024-01-01 10:00:00 UTC": neither
\* RFC-2822 nor ISO-8601, a numeric offset or a zone name at the end
PatternOffset(t) == [fmt |-> "pattern_offset", t |-> t]
PatternZoneName(t) == [fmt |-> "pattern_zone_name", t |-> t]
\* "1 Jan 99999999999999999999 10:00:00 +0000": a year no C long holds
YearOverflow == [fmt |-> "rfc2822_year_overflow", t |-> 0]
\* the strings 'None' and 'null'
LiteralNone == [fmt |-> "literal_None", t |-> 0]

\* email.utils.parsedate_to_datetime: a datetime, or the exception raised
parsedate_to_datetime(date_str) ==
    CASE date_str.fmt = "rfc2822" ->
            [ok |-> TRUE, dt |-> Aware(date_str.t), exc |-> "none"]
      [] date_str.fmt = "rfc2822_nozone" ->
            [ok |-> TRUE, dt |-> Naive(date_str.t), exc |-> "none"]
      [] date_str.fmt = "rfc2822_year_overflow" ->
            [ok |-> FALSE, dt |-> DatetimeMin, exc |-> "OverflowError"]
      [] OTHER -> [ok |-> FALSE, dt |-> DatetimeMin, exc |-> "ValueError"]

\* datetime.fromisoformat(date.replace('Z', '+00:00')); None has no replace
fromisoformat(date_str) ==
    CASE date_str.fmt \in {"iso8601", "iso8601_z"} ->
            [ok |-> TRUE, dt |-> Aware(date_str.t)]
      [] date_str.fmt = "iso8601_naive" ->
            [ok |-> TRUE, dt |-> Naive(date_str.t)]
      [] OTHER -> [ok |-> FALSE, dt |-> DatetimeMin]

\* what a parse_date call gives: a datetime, None, or an exception
ParsedDate(dt) == [ok |-> TRUE, t |-> dt.t, aware |-> dt.aware, exc |-> "none"]
NoDate == [ok |-> FALSE, t |-> 0, aware |-> FALSE, exc |-> "none"]
RaisedDate(exc) == [ok |-> FALSE, t |-> 0, aware |-> FALSE, exc |-> exc]

\* fix_json.make_timezone_aware
make_timezone_aware(dt) == Aware(dt.t)

\* the date_patterns of fix_json.parse_date: the value of a header line
HeaderValue(date_str) ==
    IF date_str.fmt = "header_line" THEN Rfc2822Date(date_str.t) ELSE date_str

\* fix_json.parse_date, the date normalizer
parse_date(date_str) ==
    IF date_str = None \/ date_str = LiteralNone
    THEN NoDate
    ELSE LET text == HeaderValue(date_str)
             p == parsedate_to_datetime(text)
             iso == fromisoformat(text)
         IN  CASE p.ok -> ParsedDate(make_timezone_aware(p.dt))
               \* except (TypeError, ValueError) lets any other exception out
               [] p.exc = "OverflowError" -> RaisedDate("OverflowError")
               [] iso.ok -> ParsedDate(make_timezone_aware(iso.dt))
               \* tz_match: the offset is put back with dt.replace(tzinfo=...)
               [] text.fmt = "pattern_offset" ->
                     ParsedDate(make_timezone_aware(Aware(text.t)))
               \* a zone name is dropped and the naive datetime made UTC
               [] text.fmt = "pattern_zone_name" ->
                     ParsedDate(make_timezone_aware(Naive(text.t)))
               [] OTHER -> NoDate

\* check_json.parse_date
check_json_parse_date(date_str) ==
    IF date_str = None
    THEN NoDate
    ELSE LET p == parsedate_to_datetime(date_str)
             iso == fromisoformat(date_str)
         IN  CASE p.ok -> ParsedDate(p.dt)
               [] p.exc = "OverflowError" -> RaisedDate("OverflowError")
               [] iso.ok -> ParsedDate(iso.dt)
               [] OTHER -> NoDate

\* the sort key of _merge_emails
get_date(email) ==
    LET date_str == email.date
    IN  IF date_str = None
        THEN DatetimeMin
        ELSE LET p == parsedate_to_datetime(date_str)
             IN  IF p.ok THEN p.dt
                 \* both strptime patterns are RFC-2822 shapes: they fail on
                 \* whatever parsedate_to_datetime failed on
                 ELSE DatetimeMin

\* sorted(..., key=get_date, reverse=True) compares keys with <; an aware and
\* a naive datetime do not compare (TypeError)
Comparable(s) ==
    \A i, j \in 1..Len(s) : get_date(s[i]).aware = get_date(s[j]).aware

\* a sort that reverses an ascending one: equal keys change places
RECURSIVE InsertDescUnstable(_, _)
InsertDescUnstable(x, s) ==
    IF s = <<>> THEN <<x>>
    ELSE IF get_date(Head(s)).t > get_date(x).t
         THEN <<Head(s)>> \o InsertDescUnstable(x, Tail(s))
         ELSE <<x>> \o s

\* x goes behind every element whose key is not smaller: the sort is stable
RECURSIVE InsertDesc(_, _)
InsertDesc(x, s) ==
    IF s = <<>> THEN <<x>>
    ELSE IF get_date(Head(s)).t >= get_date(x).t
         THEN <<Head(s)>> \o InsertDesc(x, Tail(s))
         ELSE <<x>> \o s

RECURSIVE SortDescFrom(_, _)
SortDescFrom(acc, rest) ==
    IF rest = <<>> THEN acc
    ELSE SortDescFrom(InsertDesc(Head(rest), acc), Tail(rest))

SortedByDate(s) == SortDescFrom(<<>>, s)

\* a loop that appends without looking at the seen identifiers
RECURSIVE AppendNewDup(_, _, _)
AppendNewDup(acc, ids, rest) ==
    IF rest = <<>> THEN acc
    ELSE AppendNewDup(Append(acc, Head(rest)), ids, Tail(rest))

\* a loop that never adds an appended identifier to the seen ones
RECURSIVE AppendNewUnseen(_, _, _)
AppendNewUnseen(acc, ids, rest) ==
    IF rest = <<>> THEN acc
    ELSE LET email == Head(rest)
         IN  IF email.message_id \notin ids
             THEN AppendNewUnseen(Append(acc, email), ids, Tail(rest))
             ELSE AppendNewUnseen(acc, ids, Tail(rest))

\* the loop of _merge_emails: existing_emails after the appends
RECURSIVE AppendNew(_, _, _)
AppendNew(acc, ids, rest) ==
    IF rest = <<>> THEN acc
    ELSE LET email == Head(rest)
         IN  IF email.message_id \notin ids
             THEN AppendNew(Append(acc, email), ids \cup {email.message_id}, Tail(rest))
             ELSE AppendNew(acc, ids, Tail(rest))

ExistingIds(existing) == {existing[i].message_id : i \in 1..Len(existing)}

\* existing_emails as the call leaves it (the list is appended to in place)
ExistingAfterMerge(existing, new) ==
    AppendNew(existing, ExistingIds(existing), new)

Raised(exc) == [status |-> exc, value |-> <<>>]
Returned(v) == [status |-> "ok", value |-> v]
NotCalled == [status |-> "not_called", value |-> <<>>]

_merge_emails(existing, new) ==
    LET all == ExistingAfterMerge(existing, new)
    IN  IF Comparable(all)
        THEN Returned(SortedByDate(all))
        ELSE Raised("TypeError")

----------------------------------------------------------------------------
(* Strings are sequences of one-character strings, so that str.lower(),    *)
(* the substring test `in`, str.split and str.strip are what they are in   *)
(* Python.                                                                 *)

LowerChar(c) ==
    CASE c = "A" -> "a"
      [] c = "B" -> "b"
      [] c = "I" -> "i"
      [] c = "S" -> "s"
      [] c = "U" -> "u"
      [] OTHER -> c

\* str.lower()
Lower(str) == [i \in 1..Len(str) |-> LowerChar(str[i])]

\* needle in haystack
Contains(haystack, needle) ==
    \E i \in 0..(Len(haystack) - Len(needle)) :
        SubSeq(haystack, i + 1, i + Len(needle)) = needle

\* str.split('<')[0]
RECURSIVE BeforeAngle(_)
BeforeAngle(str) ==
    IF str = <<>> \/ Head(str) = "<" THEN <<>>
    ELSE <<Head(str)>> \o BeforeAngle(Tail(str))

RECURSIVE LStrip(_)
LStrip(str) ==
    IF str # <<>> /\ Head(str) = " " THEN LStrip(Tail(str)) ELSE str

RECURSIVE RStrip(_)
RStrip(str) ==
    IF str # <<>> /\ str[Len(str)] = " "
    THEN RStrip(SubSeq(str, 1, Len(str) - 1))
    ELSE str

\* str.strip()
Strip(str) == RStrip(LStrip(str))

\* str.split(): the set of the whitespace-delimited tokens
RECURSIVE FirstToken(_)
FirstToken(str) ==
    IF str = <<>> \/ Head(str) = " " THEN <<>>
    ELSE <<Head(str)>> \o FirstToken(Tail(str))

RECURSIVE Split(_)
Split(str) ==
    LET t == LStrip(str)
    IN  IF t = <<>> THEN {}
        ELSE {FirstToken(t)} \cup Split(SubSeq(t, Len(FirstToken(t)) + 1, Len(t)))

AnyIn(terms, text) == \E i \in 1..Len(terms) : Contains(text, terms[i])

----------------------------------------------------------------------------
(* EmailProcessor._calculate_importance_score, rule by rule. *)

\* score -= 2 for a blacklist term found
BlacklistPenalty == 2

\* f"{subject} {from} {body}".lower()
TextToCheck(m) == Lower(m.subject \o <<" ">> \o m.from \o <<" ">> \o m.body)

\* the billing rule fires: the function returns the rule's score at once
BillingFires(cfg, m) ==
    /\ cfg.billing_addresses.present
    /\ AnyIn(cfg.billing_addresses.addresses, Lower(m.to))

FinancialBonus(cfg, m) ==
    IF cfg.financial_documents.present
       /\ AnyIn(cfg.financial_documents.terms, TextToCheck(m))
    THEN cfg.financial_documents.score ELSE 0

ReceiptsBonus(cfg, m) ==
    IF cfg.receipts.present /\ AnyIn(cfg.receipts.terms, TextToCheck(m))
    THEN cfg.receipts.score ELSE 0

KeywordBonus(cfg, m) ==
    IF cfg.important_keywords.present
       /\ AnyIn(cfg.important_keywords.terms, Lower(m.subject))
    THEN cfg.important_keywords.score ELSE 0

\* for term in self.blacklist: if term in text_to_check: score -= 2
BlacklistLoss(bl, m) ==
    BlacklistPenalty
        * Cardinality({i \in 1..Len(bl) : Contains(TextToCheck(m), bl[i])})

\* email_data['from'].split('<')[0].strip().lower()
SenderName(m) == Lower(Strip(BeforeAngle(m.from)))

\* first and last names looked at even when the full name matched
NameBonusNoElse(section, dir, m) ==
    (IF SenderName(m) \in dir.names THEN section.full_name_match ELSE 0)
    + (IF Split(SenderName(m)) \cap dir.first_names # {}
       THEN section.first_name_match ELSE 0)
    + (IF Split(SenderName(m)) \cap dir.last_names # {}
       THEN section.last_name_match ELSE 0)

NameBonus(section, dir, m) ==
    IF SenderName(m) \in dir.names
    THEN section.full_name_match
    ELSE (IF Split(SenderName(m)) \cap dir.first_names # {}
          THEN section.first_name_match ELSE 0)
         + (IF Split(SenderName(m)) \cap dir.last_names # {}
            THEN section.last_name_match ELSE 0)

ContactBonus(cfg, dir, m) ==
    IF dir.present /\ cfg.contact_bonus.present
    THEN (IF m.is_from_contact THEN cfg.contact_bonus.from_contact ELSE 0)
         + NameBonus(cfg.contact_bonus, dir, m)
         + (IF \E org \in dir.organizations : Contains(TextToCheck(m), org)
            THEN cfg.contact_bonus.organization_match ELSE 0)
    ELSE 0

\* a reply bonus with a built-in default for a configuration without the section
ReplyBonusDefault(cfg, m) ==
    IF m.is_reply
    THEN (IF cfg.reply_bonus.present THEN cfg.reply_bonus.is_reply ELSE 1)
    ELSE 0

ReplyBonus(cfg, m) ==
    IF cfg.reply_bonus.present /\ m.is_reply THEN cfg.reply_bonus.is_reply ELSE 0

\* a scorer that adds to the score the message already carries
StartScoreCarried(m) == m.importance_score

\* score = 0
StartScore(m) == 0

_calculate_importance_score(cfg, bl, dir, m) ==
    IF BillingFires(cfg, m)
    THEN cfg.billing_addresses.score
    ELSE StartScore(m)
         + FinancialBonus(cfg, m)
         + ReceiptsBonus(cfg, m)
         + KeywordBonus(cfg, m)
         - BlacklistLoss(bl, m)
         + ContactBonus(cfg, dir, m)
         + ReplyBonus(cfg, m)

----------------------------------------------------------------------------
(* The values the variables of one specification keep in the others. *)

NoSummary ==
    [total_emails |-> 0,
     importance_scores |-> [high |-> 0, medium |-> 0, low |-> 0],
     date_range |-> [oldest |-> 0, newest |-> 0]]

\* the file: absent, a complete JSON document, or the beginning of one
AbsentFile == [exists |-> FALSE, valid |-> FALSE, emails |-> <<>>, summary |-> NoSummary]
CompleteFile(es, summary) == [exists |-> TRUE, valid |-> TRUE, emails |-> es, summary |-> summary]
PartialFile == [exists |-> TRUE, valid |-> FALSE, emails |-> <<>>, summary |-> NoSummary]

Outcome(status, new_count) == [status |-> status, new_count |-> new_count]

NoMerge ==
    /\ existing_emails = <<>>
    /\ new_emails = <<>>
    /\ merged = NotCalled

NoScore == [status |-> "not_called", value |-> 0]

NoScorer ==
    /\ scoring_config = <<>>
    /\ blacklist = <<>>
    /\ contacts = <<>>
    /\ email_data = <<>>
    /\ score = NoScore

NoFile ==
    /\ output_file = AbsentFile
    /\ emails = <<>>
    /\ saved = Outcome("not_called", 0)
    /\ pc = "main"

NoStats ==
    [status |-> "not_called", thread_sizes |-> [r \in {} |-> 0],
     thread_reply_counts |-> [r \in {} |-> 0],
     reply_stats |-> [replies |-> 0, replied_to |-> 0, not_replied_to |-> 0],
     thread_times |-> <<>>]

NoAnalysis == stats = NoStats

NoMessage == mime_message = <<>>

NoCall == [op |-> "none"]

NoDates ==
    /\ date_texts = <<>>
    /\ parsed_dates = <<>>

\* what an IMAP call gave back: the list of fetch_emails, the number of
\* count_emails, and whether an error line went to print or _log
NoFetch == [status |-> "not_called", value |-> <<>>, count |-> 0, error_logged |-> FALSE]

NoSession ==
    /\ mailbox = <<>>
    /\ imap = <<>>
    /\ call = NoCall
    /\ fetched = NoFetch

----------------------------------------------------------------------------
(* SpecMerge: _merge_emails applied to bounded lists, and to its own       *)
(* result as successive save_to_json calls do.                             *)

MergeDates == {None} \cup {IsoDate(t) : t \in Times} \cup {Rfc2822Date(t) : t \in Times}

\* the identifiers of SpecMerge: the empty one and one a later copy can share
MergeIds == {"", "<a>"}

MergeMessages == [message_id : MergeIds, date : MergeDates]

ExistingLists == BoundedSeq(MergeMessages, MaxExisting)
IncomingLists == BoundedSeq(MergeMessages, MaxIncoming)

InitMerge ==
    /\ existing_emails \in ExistingLists
    /\ new_emails = <<>>
    /\ merged = NotCalled
    /\ NoFile
    /\ NoScorer
    /\ NoAnalysis
    /\ NoDates
    /\ NoMessage
    /\ NoSession

\* the first call, on a list read from anywhere
Merge ==
    /\ merged.status = "not_called"
    /\ \E incoming \in IncomingLists :
        /\ new_emails' = incoming
        /\ merged' = _merge_emails(existing_emails, incoming)
    /\ UNCHANGED <<dateVars, existing_emails, saveVars, scoreVars, analyzeVars, bodyVars, fetchVars>>

\* a later call, on the result of the call before
MergeAgain ==
    /\ merged.status = "ok"
    /\ Len(merged.value) <= MaxExisting
    /\ \E incoming \in IncomingLists :
        /\ existing_emails' = merged.value
        /\ new_emails' = incoming
        /\ merged' = _merge_emails(merged.value, incoming)
    /\ UNCHANGED <<dateVars, saveVars, scoreVars, analyzeVars, bodyVars, fetchVars>>

\* _merge_emails(existing_emails, existing_emails): new_emails is the same list
MergeSelf ==
    /\ merged.status = "not_called"
    /\ new_emails' = existing_emails
    /\ merged' = _merge_emails(existing_emails, existing_emails)
    /\ UNCHANGED <<dateVars, existing_emails, saveVars, scoreVars, analyzeVars, bodyVars, fetchVars>>

NextMerge == Merge \/ MergeSelf \/ MergeAgain

SpecMerge == InitMerge /\ [][NextMerge]_vars

----------------------------------------------------------------------------
(* Spec: the persisted collection file under successive save_to_json       *)
(* calls, each on a batch that fetch_emails built with _parse_email.       *)

\* longest batch handed to save_to_json
MaxBatch == 2

SetMin(S) == CHOOSE x \in S : \A y \in S : x <= y
SetMax(S) == CHOOSE x \in S : \A y \in S : x >= y

\* datetime.now(): later than every message instant
Now == SetMax(Times) + 1

\* the Date header of a raw message: absent, or a string
RawDates ==
    {None, Garbage} \cup {Rfc2822Date(t) : t \in Times}
        \cup {Rfc2822NoZone(t) : t \in Times}

RawMessages == [message_id : MessageIds, date : RawDates]

\* Python's None as the value of a Message-ID or In-Reply-To header that is
\* not there: a value no header text equals
NoneHeader == "None"

\* bool(header): None and the empty string are false
Truthy(header) == header # NoneHeader /\ header # ""

\* the Message-ID values that carry dot-delimited segments; "J" is the
\* JavaMail tail of <number.number.timestamp.JavaMail.domain>
TimestampIds ==
    {"<1.2.5.J>",
     "<1.2.-5.J>",
     "<1.2.007.J>",
     "<1.2.1700000000.J>",
     "<1.2.1700000000000.J>",
     "<1.2.1000000000000.J>",
     "<1.2.1000000000001.J>",
     "<1.2.999999999999.J>",
     "<1.2.253402300799.J>",
     "<1.2.253402300800.J>",
     "<1.2.253402300800000.J>",
     "<1.2.J.J>",
     "<1.2.5>",
     "<1.5>",
     "1.2.5"}

\* the characters of a Message-ID value of the model
Chars(message_id) ==
    CASE message_id = "<a>" ->
            <<"<", "a", ">">>
      [] message_id = "<b>" ->
            <<"<", "b", ">">>
      [] message_id = "<1.2.5.J>" ->
            <<"<", "1", ".", "2", ".", "5", ".", "J", ">">>
      [] message_id = "<1.2.-5.J>" ->
            <<"<", "1", ".", "2", ".", "-", "5", ".", "J", ">">>
      [] message_id = "<1.2.007.J>" ->
            <<"<", "1", ".", "2", ".", "0", "0", "7", ".", "J", ">">>
      [] message_id = "<1.2.1700000000.J>" ->
            <<"<", "1", ".", "2", ".", "1", "7", "0", "0", "0", "0", "0", "0", "0", "0", ".", "J", ">">>
      [] message_id = "<1.2.1700000000000.J>" ->
            <<"<", "1", ".", "2", ".", "1", "7", "0", "0", "0", "0", "0", "0", "0", "0", "0", "0", "0", ".", "J", ">">>
      [] message_id = "<1.2.1000000000000.J>" ->
            <<"<", "1", ".", "2", ".", "1", "0", "0", "0", "0", "0", "0", "0", "0", "0", "0", "0", "0", ".", "J", ">">>
      [] message_id = "<1.2.1000000000001.J>" ->
            <<"<", "1", ".", "2", ".", "1", "0", "0", "0", "0", "0", "0", "0", "0", "0", "0", "0", "1", ".", "J", ">">>
      [] message_id = "<1.2.999999999999.J>" ->
            <<"<", "1", ".", "2", ".", "9", "9", "9", "9", "9", "9", "9", "9", "9", "9", "9", "9", ".", "J", ">">>
      [] message_id = "<1.2.253402300799.J>" ->
            <<"<", "1", ".", "2", ".", "2", "5", "3", "4", "0", "2", "3", "0", "0", "7", "9", "9", ".", "J", ">">>
      [] message_id = "<1.2.253402300800.J>" ->
            <<"<", "1", ".", "2", ".", "2", "5", "3", "4", "0", "2", "3", "0", "0", "8", "0", "0", ".", "J", ">">>
      [] message_id = "<1.2.253402300800000.J>" ->
            <<"<", "1", ".", "2", ".", "2", "5", "3", "4", "0", "2", "3", "0", "0", "8", "0", "0", "0", "0", "0", ".", "J", ">">>
      [] message_id = "<1.2.J.J>" ->
            <<"<", "1", ".", "2", ".", "J", ".", "J", ">">>
      [] message_id = "<1.2.5>" ->
            <<"<", "1", ".", "2", ".", "5", ">">>
      [] message_id = "<1.5>" ->
            <<"<", "1", ".", "5", ">">>
      [] message_id = "1.2.5" ->
            <<"1", ".", "2", ".", "5">>
      [] OTHER -> <<>>

\* str.split('.')[0]
RECURSIVE BeforeDot(_)
BeforeDot(str) ==
    IF str = <<>> \/ Head(str) = "." THEN <<>>
    ELSE <<Head(str)>> \o BeforeDot(Tail(str))

\* str.split('.'), as a list
RECURSIVE SplitDots(_)
SplitDots(str) ==
    LET first == BeforeDot(str)
    IN  IF Len(first) = Len(str) THEN <<first>>
        ELSE <<first>> \o SplitDots(SubSeq(str, Len(first) + 2, Len(str)))

\* Python integers have no width: an integer is a sign and its decimal
\* digits, most significant first, with no leading zero
DigitValue(c) ==
    CASE c = "0" -> 0 [] c = "1" -> 1 [] c = "2" -> 2 [] c = "3" -> 3
      [] c = "4" -> 4 [] c = "5" -> 5 [] c = "6" -> 6 [] c = "7" -> 7
      [] c = "8" -> 8 [] c = "9" -> 9 [] OTHER -> -1

IsDigit(c) == DigitValue(c) >= 0

RECURSIVE StripZeros(_)
StripZeros(digits) ==
    IF Len(digits) > 1 /\ Head(digits) = "0" THEN StripZeros(Tail(digits))
    ELSE digits

Integer(neg, digits) ==
    [neg |-> neg /\ StripZeros(digits) # <<"0">>, digits |-> StripZeros(digits)]

\* int(text) of a sign and decimal digits, or ValueError (ok = FALSE)
ParseInt(text) ==
    LET neg == text # <<>> /\ Head(text) = "-"
        digits == IF neg THEN Tail(text) ELSE text
    IN  IF digits # <<>> /\ \A i \in 1..Len(digits) : IsDigit(digits[i])
        THEN [ok |-> TRUE, n |-> Integer(neg, digits)]
        ELSE [ok |-> FALSE, n |-> Integer(FALSE, <<"0">>)]

\* a > b for two naturals
DigitsGreater(a, b) ==
    \/ Len(a) > Len(b)
    \/ /\ Len(a) = Len(b)
       /\ \E i \in 1..Len(a) :
            /\ DigitValue(a[i]) > DigitValue(b[i])
            /\ \A j \in 1..(i - 1) : a[j] = b[j]

\* x > y
Greater(x, y) ==
    CASE ~x.neg /\ ~y.neg -> DigitsGreater(x.digits, y.digits)
      [] x.neg /\ y.neg -> DigitsGreater(y.digits, x.digits)
      [] OTHER -> y.neg /\ ~x.neg

\* x // 1000 for x >= 0
FloorDiv1000(x) ==
    IF Len(x.digits) <= 3 THEN Integer(FALSE, <<"0">>)
    ELSE Integer(FALSE, SubSeq(x.digits, 1, Len(x.digits) - 3))

\* 1000000000000
MillisecondThreshold ==
    Integer(FALSE, <<"1", "0", "0", "0", "0", "0", "0", "0", "0", "0", "0", "0", "0">>)

\* the seconds of 9999-12-31T23:59:59 and of 0001-01-01T00:00:00, the last
\* and the first instant of a datetime
MaxTimestamp ==
    Integer(FALSE, <<"2", "5", "3", "4", "0", "2", "3", "0", "0", "7", "9", "9">>)
MinTimestamp ==
    Integer(TRUE, <<"6", "2", "1", "3", "5", "5", "9", "6", "8", "0", "0">>)

\* a test that takes the threshold itself for milliseconds
is_milliseconds_from(timestamp) ==
    ~Greater(MillisecondThreshold, timestamp)

\* timestamp > 1000000000000
is_milliseconds(timestamp) == Greater(timestamp, MillisecondThreshold)

\* datetime.fromtimestamp(timestamp, tz=timezone.utc), or the exception of
\* a year out of range (ok = FALSE)
fromtimestamp(timestamp) ==
    IF Greater(timestamp, MaxTimestamp) \/ Greater(MinTimestamp, timestamp)
    THEN [ok |-> FALSE, dt |-> DatetimeMin]
    ELSE [ok |-> TRUE, dt |-> Aware(timestamp)]

\* the try block of _parse_email, lines 305-319: the instant recovered from
\* the message_id, or nothing when any step raised
MessageIdTimestamp(message_id) ==
    LET msg_id_parts == SplitDots(Chars(message_id))
        n == ParseInt(msg_id_parts[3])
        timestamp == IF is_milliseconds(n.n) THEN FloorDiv1000(n.n) ELSE n.n
        parsed_date == fromtimestamp(timestamp)
    IN  IF Len(msg_id_parts) >= 3 /\ n.ok /\ parsed_date.ok
        THEN [ok |-> TRUE, t |-> parsed_date.dt.t]
        ELSE [ok |-> FALSE, t |-> 0]

\* a parser that keeps the Date header as it came
_parse_email_raw_date(email_message) ==
    [message_id |-> email_message.message_id, date |-> email_message.date]

\* _parse_email, the date and message_id fields of email_data
_parse_email(email_message) ==
    LET hdr == email_message.date
        p == parsedate_to_datetime(hdr)
        date_str == IF hdr # None /\ p.ok
                    THEN IsoDate(p.dt.t)      \* naive made UTC, then isoformat()
                    ELSE None
        rec == MessageIdTimestamp(email_message.message_id)
    IN  [message_id |-> email_message.message_id,
         date |-> IF date_str = None /\ Truthy(email_message.message_id) /\ rec.ok
                  THEN IsoDate(rec.t)
                  ELSE date_str]

ParseAll(raw) == [i \in 1..Len(raw) |-> _parse_email(raw[i])]

\* sorted(emails, key=lambda x: x.get('date', ''), reverse=True) in
\* generate_summary: None does not compare with a string, nor with None
SummarySortRaises(es) ==
    Len(es) >= 2 /\ \E i \in 1..Len(es) : es[i].date = None

\* e.get('importance_score', 0)
ImportanceScore(e) ==
    IF "importance_score" \in DOMAIN e THEN e.importance_score ELSE 0

\* the 'importance_scores' entry of the summary
ImportanceScores(es) ==
    [high |-> Cardinality({i \in 1..Len(es) : ImportanceScore(es[i]) > 5}),
     medium |-> Cardinality({i \in 1..Len(es) :
                    0 <= ImportanceScore(es[i]) /\ ImportanceScore(es[i]) <= 5}),
     low |-> Cardinality({i \in 1..Len(es) : ImportanceScore(es[i]) < 0})]

generate_summary(es) ==
    IF SummarySortRaises(es)
    THEN Raised("TypeError")
    ELSE Returned([total_emails |-> Len(es),
                   importance_scores |-> ImportanceScores(es)])

\* the dates save_to_json takes as valid for the date range
ValidDates(es) ==
    {parsedate_to_datetime(es[i].date).dt.t :
        i \in {k \in 1..Len(es) :
                 es[k].date # None /\ parsedate_to_datetime(es[k].date).ok}}

DateRange(es) ==
    IF ValidDates(es) # {}
    THEN [oldest |-> SetMin(ValidDates(es)), newest |-> SetMax(ValidDates(es))]
    ELSE [oldest |-> DatetimeMin.t, newest |-> Now]

\* json.load of the existing file; a failure is caught and leaves []
LoadExisting(file) ==
    IF file.exists /\ file.valid THEN file.emails ELSE <<>>

\* open(output_file, 'w') truncates, json.dump writes piece by piece
WriteFile(file, es, summary, dump_ok) ==
    IF dump_ok THEN CompleteFile(es, summary) ELSE PartialFile

save_to_json(file, batch, dump_ok) ==
    LET existing == LoadExisting(file)
        m == _merge_emails(existing, batch)
        new_count == Len(m.value) - Len(ExistingAfterMerge(existing, batch))
        summary == generate_summary(m.value)
    IN  IF m.status # "ok"
        THEN [file |-> file, saved |-> Outcome("error_merge", 0)]
        ELSE IF summary.status # "ok"
        THEN [file |-> file, saved |-> Outcome("error_summary", 0)]
        ELSE LET full == [total_emails |-> summary.value.total_emails,
                          importance_scores |-> summary.value.importance_scores,
                          date_range |-> DateRange(m.value)]
             IN  [file |-> WriteFile(file, m.value, full, dump_ok),
                  saved |-> Outcome(IF dump_ok THEN "ok" ELSE "error_dump", new_count)]

Init ==
    /\ NoFile
    /\ NoMerge
    /\ NoScorer
    /\ NoAnalysis
    /\ NoDates
    /\ NoMessage
    /\ NoSession

\* what fetch_emails can return: the _parse_email of up to MaxBatch messages
ParsedMessages == {_parse_email(m) : m \in RawMessages}
FetchedBatches == BoundedSeq(ParsedMessages, MaxBatch)

\* main, line 900: emails = processor.fetch_emails(folder=folder, ...)
FetchEmails ==
    /\ pc = "main"
    /\ \E batch \in FetchedBatches : emails' = batch
    /\ saved' = Outcome("not_called", 0)
    /\ pc' = "fetched"
    /\ UNCHANGED <<dateVars, output_file, mergeVars, scoreVars, analyzeVars, bodyVars, fetchVars>>

\* main, lines 902-908: a batch that is not empty goes to save_to_json;
\* json.dump raises or not (a header value kept as an email.header.Header
\* object is not serializable, the disk fills up)
SaveToJson ==
    /\ pc = "fetched"
    /\ emails # <<>>
    /\ \E dump_ok \in BOOLEAN :
        LET r == save_to_json(output_file, emails, dump_ok)
        IN  /\ output_file' = r.file
            /\ saved' = r.saved
    /\ pc' = "saved"
    /\ UNCHANGED <<dateVars, emails, mergeVars, scoreVars, analyzeVars, bodyVars, fetchVars>>

\* main, line 897: the next folder, or the next run on the same folder
NextFolder ==
    /\ \/ pc = "saved"
       \/ pc = "fetched" /\ emails = <<>>
    /\ pc' = "main"
    /\ emails' = <<>>
    /\ saved' = Outcome("not_called", 0)
    /\ UNCHANGED <<dateVars, output_file, mergeVars, scoreVars, analyzeVars, bodyVars, fetchVars>>

Next == FetchEmails \/ SaveToJson \/ NextFolder

Spec == Init /\ [][Next]_vars

----------------------------------------------------------------------------
(* SpecScore: an EmailProcessor constructed from scoring_config.json,      *)
(* blacklist.txt and contacts.json, scoring the messages it parses.        *)

\* longest blacklist.txt, in lines
MaxBlacklist == 2

AbsentSection == [present |-> FALSE]

BillingSections ==
    {AbsentSection,
     [present |-> TRUE, addresses |-> << <<"b", "@">> >>, score |-> 100],
     [present |-> TRUE, addresses |-> << <<"B", "@">> >>, score |-> 100]}

FinancialSections ==
    {AbsentSection, [present |-> TRUE, terms |-> << <<"i">> >>, score |-> 3]}

ReceiptsSections ==
    {AbsentSection, [present |-> TRUE, terms |-> << <<"r">> >>, score |-> -1]}

KeywordSections ==
    {AbsentSection, [present |-> TRUE, terms |-> << <<"u">> >>, score |-> 2]}

ContactBonusSections ==
    {AbsentSection,
     [present |-> TRUE, from_contact |-> 4, full_name_match |-> 5,
      first_name_match |-> 1, last_name_match |-> 2, organization_match |-> 3]}

ReplyBonusSections ==
    {AbsentSection, [present |-> TRUE, is_reply |-> 1]}

\* json.load of scoring_config.json, or {} when the file is not there
ScoringConfigs ==
    [billing_addresses : BillingSections,
     financial_documents : FinancialSections,
     receipts : ReceiptsSections,
     important_keywords : KeywordSections,
     contact_bonus : ContactBonusSections,
     reply_bonus : ReplyBonusSections]

EmptyConfig ==
    [billing_addresses |-> AbsentSection,
     financial_documents |-> AbsentSection,
     receipts |-> AbsentSection,
     important_keywords |-> AbsentSection,
     contact_bonus |-> AbsentSection,
     reply_bonus |-> AbsentSection]

\* the lines of blacklist.txt, stripped and lower-cased, in file order
BlacklistTerms == {<<"s">>, <<"n">>}
Blacklists == BoundedSeq(BlacklistTerms, MaxBlacklist)

\* self.contacts = None (contacts not loaded)
NoContacts ==
    [present |-> FALSE, emails |-> {}, names |-> {}, first_names |-> {},
     last_names |-> {}, organizations |-> {}]

\* contacts.json as parse_contacts writes it for one row: first name "A",
\* last name "L", organization "O", e-mail "@"
ParsedContacts ==
    [present |-> TRUE,
     emails |-> {<<"@">>},
     names |-> {<<"a">>, <<"l">>, <<"a", " ", "l">>},
     first_names |-> {<<"a">>},
     last_names |-> {<<"l">>},
     organizations |-> {<<"o">>}]

ContactDirectories == {NoContacts, ParsedContacts}

Subjects == {<<"U", " ", "r">>}
Froms == {<<"A", " ", "l", "<", "@", ">">>, <<"l", " ", "a">>, <<"x", " ", "<", "y", ">">>}
Tos == {<<"y", "@">>, <<"x", " ", "B", "@">>}
Bodies == {<<>>, <<"I", " ", "S">>, <<"s", " ", "n", " ", "o">>}

\* the headers and the body of a raw message
ScoredRawMessages ==
    [subject : Subjects, from : Froms, to : Tos, body : Bodies, is_reply : BOOLEAN]

\* from_parts[-1].strip('>') of a "name <addr>" header, else the header
RECURSIVE AfterLastAngle(_)
AfterLastAngle(str) ==
    IF \E i \in 1..Len(str) : str[i] = "<"
    THEN AfterLastAngle(Tail(str))
    ELSE str

RECURSIVE StripCloseAngle(_)
StripCloseAngle(str) ==
    IF str # <<>> /\ str[Len(str)] = ">"
    THEN StripCloseAngle(SubSeq(str, 1, Len(str) - 1))
    ELSE IF str # <<>> /\ Head(str) = ">"
    THEN StripCloseAngle(Tail(str))
    ELSE str

\* _parse_email, lines 336-345: validate_email accepts an address with an @
IsFromContact(dir, from) ==
    LET addr == IF \E i \in 1..Len(from) : from[i] = "<"
                THEN StripCloseAngle(AfterLastAngle(from))
                ELSE Strip(from)
    IN  /\ Contains(addr, <<"@">>)
        /\ dir.present
        /\ addr \in dir.emails

\* _parse_email, lines 321-334: email_data before it is scored
NewEmailData(dir, raw) ==
    [subject |-> raw.subject, from |-> raw.from, to |-> raw.to,
     body |-> raw.body, is_reply |-> raw.is_reply,
     is_from_contact |-> IsFromContact(dir, raw.from),
     importance_score |-> 0]

InitScore ==
    /\ scoring_config \in ScoringConfigs
    /\ blacklist \in Blacklists
    /\ contacts \in ContactDirectories
    /\ email_data = <<>>
    /\ score = NoScore
    /\ NoMerge
    /\ NoFile
    /\ NoAnalysis
    /\ NoDates
    /\ NoMessage
    /\ NoSession

\* _parse_email: email_data['importance_score'] = self._calculate_importance_score(email_data)
ParseEmail ==
    /\ score.status = "not_called"
    /\ \E raw \in ScoredRawMessages :
        LET m == NewEmailData(contacts, raw)
            v == _calculate_importance_score(scoring_config, blacklist, contacts, m)
        IN  /\ email_data' = [m EXCEPT !.importance_score = v]
            /\ score' = [status |-> "parsed", value |-> v]
    /\ UNCHANGED <<dateVars, scoring_config, blacklist, contacts, mergeVars, saveVars,
                   analyzeVars, bodyVars, fetchVars>>

\* score_emails: email['importance_score'] = self._calculate_importance_score(email)
ScoreEmails ==
    /\ score.status \in {"parsed", "rescored"}
    /\ LET v == _calculate_importance_score(scoring_config, blacklist, contacts, email_data)
       IN  /\ email_data' = [email_data EXCEPT !.importance_score = v]
           /\ score' = [status |-> "rescored", value |-> v]
    /\ UNCHANGED <<dateVars, scoring_config, blacklist, contacts, mergeVars, saveVars,
                   analyzeVars, bodyVars, fetchVars>>

NextScore == ParseEmail \/ ScoreEmails

SpecScore == InitScore /\ [][NextScore]_vars

----------------------------------------------------------------------------
(* analyze_emails: the threads, the reply direction and the reply latency  *)
(* of the messages of a persisted collection.  An identifier is one symbol *)
(* of a header text; the References header is a text of identifiers and    *)
(* whitespace.                                                             *)

\* the References header: None, or its text
NoReferences == [none |-> TRUE, text |-> <<>>]
ReferencesHeader(text) == [none |-> FALSE, text |-> text]

\* _parse_email, lines 326-329 of email_data beside the date
ParseThreadHeaders(email_message) ==
    [message_id |-> email_message.message_id,
     date |-> _parse_email(email_message).date,
     in_reply_to |-> email_message.in_reply_to,
     references |-> email_message.references,
     is_reply |-> Truthy(email_message.in_reply_to)]

\* str.split() of a text of identifiers and whitespace: the tokens, in order
RECURSIVE SplitList(_)
SplitList(text) ==
    IF text = <<>> THEN <<>>
    ELSE IF Head(text) = " " THEN SplitList(Tail(text))
    ELSE <<Head(text)>> \o SplitList(Tail(text))

\* references.split() if references else []
references_list(email) ==
    IF ~email.references.none /\ email.references.text # <<>>
    THEN SplitList(email.references.text)
    ELSE <<>>

\* if in_reply_to or references_list
has_reply_references(email) ==
    Truthy(email.in_reply_to) \/ references_list(email) # <<>>

\* a root taken from the end of the References header
thread_root_last(email) ==
    IF Truthy(email.in_reply_to) THEN email.in_reply_to
    ELSE IF references_list(email) # <<>>
    THEN references_list(email)[Len(references_list(email))]
    ELSE email.message_id

\* the first pass: the key of thread_emails and thread_sizes for a message
thread_root(email) ==
    IF Truthy(email.in_reply_to) THEN email.in_reply_to
    ELSE IF references_list(email) # <<>> THEN references_list(email)[1]
    ELSE email.message_id

\* a first pass that counts a message under its root only when the message
\* is no reply
thread_sizes_originals(es) ==
    [r \in {thread_root(es[i]) : i \in 1..Len(es)} |->
        Cardinality({i \in 1..Len(es) :
            thread_root(es[i]) = r /\ ~has_reply_references(es[i])})]

\* the Counter thread_sizes after the first pass
thread_sizes(es) ==
    [r \in {thread_root(es[i]) : i \in 1..Len(es)} |->
        Cardinality({i \in 1..Len(es) : thread_root(es[i]) = r})]

\* the Counter thread_reply_counts after the first pass: a key for every
\* root that some reply was filed under
thread_reply_counts(es) ==
    [r \in {thread_root(es[i]) :
                i \in {k \in 1..Len(es) : has_reply_references(es[k])}} |->
        Cardinality({i \in 1..Len(es) :
            thread_root(es[i]) = r /\ has_reply_references(es[i])})]

\* next((e for e in emails if e.get('message_id') == original_message_id), None)
original_email(es, email) ==
    LET original_message_id ==
            IF Truthy(email.in_reply_to) THEN email.in_reply_to
            ELSE references_list(email)[1]
        found == {k \in 1..Len(es) : es[k].message_id = original_message_id}
    IN  IF found = {} THEN [found |-> FALSE, email |-> email]
        ELSE [found |-> TRUE, email |-> es[SetMin(found)]]

\* a test that lets a delta of zero through
non_negative(reply_time) == reply_time >= 0

\* if reply_time > timedelta(0)
positive(reply_time) == reply_time > 0

\* the sample a reply adds to thread_times, if it adds one
reply_time(es, email) ==
    LET o == original_email(es, email)
        original_date == fromisoformat(o.email.date)
        reply_date == fromisoformat(email.date)
    IN  IF o.found /\ original_date.ok /\ reply_date.ok
           /\ positive(reply_date.dt.t - original_date.dt.t)
        THEN [recorded |-> TRUE, value |-> reply_date.dt.t - original_date.dt.t]
        ELSE [recorded |-> FALSE, value |-> 0]

\* thread_times after the second pass over emails[1..n]
RECURSIVE thread_times(_, _)
thread_times(es, n) ==
    IF n = 0 THEN <<>>
    ELSE IF has_reply_references(es[n]) /\ reply_time(es, es[n]).recorded
    THEN Append(thread_times(es, n - 1), reply_time(es, es[n]).value)
    ELSE thread_times(es, n - 1)

\* any(e.get('in_reply_to') == message_id or (e.get('references', '') and
\*     message_id in e.get('references', '').split()) for e in emails)
was_replied_to(es, i) ==
    \E k \in 1..Len(es) :
        \/ es[k].in_reply_to = es[i].message_id
        \/ /\ ~es[k].references.none /\ es[k].references.text # <<>>
           /\ \E j \in 1..Len(SplitList(es[k].references.text)) :
                 SplitList(es[k].references.text)[j] = es[i].message_id

\* the Counter reply_stats after the second pass
reply_stats(es) ==
    [replies |-> Cardinality({i \in 1..Len(es) : has_reply_references(es[i])}),
     replied_to |-> Cardinality({i \in 1..Len(es) :
                        ~has_reply_references(es[i]) /\ was_replied_to(es, i)}),
     not_replied_to |-> Cardinality({i \in 1..Len(es) :
                        ~has_reply_references(es[i]) /\ ~was_replied_to(es, i)})]

\* analyze_emails(json_file): json.load raises on a file that is not there or
\* not a JSON document; an empty collection is reported and nothing counted
analyze_emails(file) ==
    IF ~file.exists THEN [NoStats EXCEPT !.status = "FileNotFoundError"]
    ELSE IF ~file.valid THEN [NoStats EXCEPT !.status = "JSONDecodeError"]
    ELSE IF file.emails = <<>> THEN [NoStats EXCEPT !.status = "no_emails"]
    ELSE [status |-> "ok",
          thread_sizes |-> thread_sizes(file.emails),
          thread_reply_counts |-> thread_reply_counts(file.emails),
          reply_stats |-> reply_stats(file.emails),
          thread_times |-> thread_times(file.emails, Len(file.emails))]

----------------------------------------------------------------------------
(* SpecAnalyze: a collection built by save_to_json from parsed messages    *)
(* of a conversation, then analyzed.                                       *)

\* most messages of a batch, and of the collection, in SpecAnalyze
MaxThread == 3

\* the raw messages of a conversation: <a> and <b> as roots or in reply to
\* <a>, a message without Message-ID, one without a usable Date, and <c>
\* that only carries References
ThreadRawMessages ==
    [message_id : {"<a>", "<b>"},
     in_reply_to : {NoneHeader, "<a>"},
     references : {NoReferences},
     date : {Rfc2822Date(t) : t \in Times}]
    \cup
    [message_id : {NoneHeader},
     in_reply_to : {NoneHeader},
     references : {NoReferences},
     date : {Rfc2822Date(SetMin(Times))}]
    \cup
    [message_id : {"<a>"},
     in_reply_to : {"<a>"},
     references : {NoReferences},
     date : {Garbage}]
    \cup
    [message_id : {"<c>"},
     in_reply_to : {NoneHeader},
     references : {ReferencesHeader(<<"<a>", " ", " ", "<b>">>),
                   ReferencesHeader(<<" ", "<b>", " ", "<a>">>)},
     date : {Rfc2822Date(SetMax(Times))}]

ThreadMessages == {ParseThreadHeaders(m) : m \in ThreadRawMessages}
ThreadBatches == BoundedSeq(ThreadMessages, MaxThread) \ {<<>>}

\* main, lines 897-908: fetch_emails returned a batch that is not empty, and
\* save_to_json merged it into the folder's file
ProcessFolder ==
    /\ pc = "main"
    /\ \E batch \in (IF output_file.emails = <<>>
                     THEN ThreadBatches
                     ELSE BoundedSeq(ThreadMessages,
                                     MaxThread - Len(output_file.emails)) \ {<<>>}),
          dump_ok \in BOOLEAN :
        LET r == save_to_json(output_file, batch, dump_ok)
        IN  /\ emails' = batch
            /\ output_file' = r.file
            /\ saved' = r.saved
    /\ pc' = "saved"
    /\ UNCHANGED <<dateVars, mergeVars, scoreVars, analyzeVars, bodyVars, fetchVars>>

\* analyze_emails.main: the folder's file is analyzed
AnalyzeEmails ==
    /\ pc = "saved"
    /\ stats' = analyze_emails(output_file)
    /\ pc' = "analyzed"
    /\ UNCHANGED <<dateVars, output_file, emails, saved, mergeVars, scoreVars, bodyVars, fetchVars>>

\* the next run of email_processor on the folder
NextRun ==
    /\ pc = "analyzed"
    /\ Len(output_file.emails) < MaxThread
    /\ pc' = "main"
    /\ emails' = <<>>
    /\ saved' = Outcome("not_called", 0)
    /\ stats' = NoStats
    /\ UNCHANGED <<dateVars, output_file, mergeVars, scoreVars, bodyVars, fetchVars>>

NextAnalyze == ProcessFolder \/ AnalyzeEmails \/ NextRun

SpecAnalyze == Init /\ [][NextAnalyze]_vars

----------------------------------------------------------------------------
(* SpecBody: the body _parse_email takes from the MIME parts of a message. *)
(* A text is a sequence of symbols: characters, " ", the HTML tags "<b>"   *)
(* and "</b>", and the emphasis mark "*" html2text writes for them.        *)

\* most parts of a multipart message
MaxParts == 2

\* _decode_body(part) of the parts a message can carry
PlainTexts == {<<>>, <<" ">>, <<"p">>, <<"q", " ", " ", "r">>}
HtmlTexts == {<<>>, <<"<b>", "h", "</b>">>}

Parts ==
    [content_type : {"text/plain"}, text : PlainTexts]
    \cup [content_type : {"text/html"}, text : HtmlTexts]
    \cup [content_type : {"application/pdf"}, text : {<<"%">>}]

\* email.message_from_bytes: a multipart message and the parts walk() yields,
\* or a message that is its own single part
MimeMessages ==
    [is_multipart : {TRUE}, parts : BoundedSeq(Parts, MaxParts)]
    \cup [is_multipart : {FALSE}, parts : SeqsOfLen(Parts, 1)]

\* re.sub(r' {2,}', ' ', text)
RECURSIVE CollapseSpaces(_)
CollapseSpaces(text) ==
    IF Len(text) < 2 THEN text
    ELSE IF text[1] = " " /\ text[2] = " " THEN CollapseSpaces(Tail(text))
    ELSE <<Head(text)>> \o CollapseSpaces(Tail(text))

\* the emphasis marks and the HTML tags the re.sub calls take out
RECURSIVE DropMarkup(_)
DropMarkup(text) ==
    IF text = <<>> THEN <<>>
    ELSE IF Head(text) \in {"*", "<b>", "</b>"} THEN DropMarkup(Tail(text))
    ELSE <<Head(text)>> \o DropMarkup(Tail(text))

_clean_text(text) ==
    IF text = <<>> THEN <<>>
    ELSE Strip(DropMarkup(CollapseSpaces(text)))

\* self.html_converter.handle(html_content): tags become emphasis marks
handle(html) ==
    [i \in 1..Len(html) |-> IF html[i] \in {"<b>", "</b>"} THEN "*" ELSE html[i]]

\* for part in email_message.walk(): email_data['body'] after the loop
RECURSIVE WalkParts(_, _)
WalkParts(body, parts) ==
    IF parts = <<>> THEN body
    ELSE LET part == Head(parts)
         IN  CASE part.content_type = "text/plain" ->
                    WalkParts(IF part.text # <<>> THEN _clean_text(part.text) ELSE body,
                              Tail(parts))
               [] part.content_type = "text/html" ->
                    WalkParts(IF body = <<>> /\ part.text # <<>>
                              THEN _clean_text(handle(part.text)) ELSE body,
                              Tail(parts))
               [] OTHER -> WalkParts(body, Tail(parts))

\* _parse_email, lines 347-389: email_data['body']
ParseBody(message) ==
    IF message.is_multipart
    THEN WalkParts(<<>>, message.parts)
    ELSE LET part == message.parts[1]
         IN  CASE part.content_type = "text/plain" -> _clean_text(part.text)
               [] part.content_type = "text/html" /\ part.text # <<>> ->
                    _clean_text(handle(part.text))
               [] OTHER -> <<>>

InitBody ==
    /\ mime_message \in MimeMessages
    /\ NoMerge
    /\ NoFile
    /\ NoScorer
    /\ NoAnalysis
    /\ NoDates
    /\ NoSession

\* fetch_emails, line 494: email_data = self._parse_email(email_message)
ParseMessage ==
    /\ email_data = <<>>
    /\ email_data' = [body |-> ParseBody(mime_message)]
    /\ UNCHANGED <<dateVars, scoring_config, blacklist, contacts, score, mergeVars, saveVars,
                   analyzeVars, bodyVars, fetchVars>>

NextBody == ParseMessage

SpecBody == InitBody /\ [][NextBody]_vars

----------------------------------------------------------------------------
(* SpecFetch: fetch_emails and count_emails against a folder of an IMAP    *)
(* server.  The server keeps a \Seen flag per message; imap is the list of *)
(* commands imaplib sent.                                                  *)

\* most messages in the folder
MaxMailbox == 2

\* the messages of the folder as the server holds them
MailboxMessages ==
    [message_id : {"<a>", "<b>"}, date : {Rfc2822Date(t) : t \in Times}, seen : {FALSE}]

Mailboxes == BoundedSeq(MailboxMessages, MaxMailbox)

\* --limit: absent (0) or a number of messages
Limits == {0, 1}

\* --since: absent (0) or the instant the day starts
SinceDates == {0} \cup {SetMax(Times)}

\* where the session fails: nowhere, IMAP4_SSL raises, login raises, select
\* answers NO, search raises, search answers NO, close raises, logout raises
SessionFaults ==
    {"none", "connect", "login", "select", "search_raises", "search_NO",
     "close", "logout"}

\* what happens to one message of the loop: fetched and parsed, fetch answers
\* NO, fetch or message_from_bytes raises, _parse_email returns None
MessageOutcomes == {"OK", "NO", "raises", "parse_none"}

\* mail.select(folder) without the readonly argument
select_readonly_omitted == FALSE

\* mail.select(folder, readonly=True)
select_readonly == TRUE

\* imaplib: select sends EXAMINE when readonly, else SELECT
select_command(readonly) == IF readonly THEN "EXAMINE" ELSE "SELECT"

\* the server on FETCH (RFC822): in a folder opened by SELECT the message
\* becomes \Seen, in one opened by EXAMINE nothing changes
ServerFetch(mbox, i, readonly) ==
    IF readonly THEN mbox ELSE [mbox EXCEPT ![i].seen = TRUE]

\* email_ids[-limit:] if limit, else email_ids
SelectIds(n, limit) ==
    IF limit # 0
    THEN [k \in 1..(IF limit < n THEN limit ELSE n) |->
             k + (IF limit < n THEN n - limit ELSE 0)]
    ELSE [k \in 1..n |-> k]

\* a loop that stops at the first message it cannot normalize
RECURSIVE FetchLoopBreak(_, _, _, _, _)
FetchLoopBreak(acc, mbox, ids, outcomes, readonly) ==
    IF ids = <<>> THEN [emails |-> acc, mailbox |-> mbox, sent |-> <<>>]
    ELSE LET i == Head(ids)
             delivered == outcomes[i] \in {"OK", "parse_none"}
         IN  IF outcomes[i] = "OK"
             THEN LET rest == FetchLoopBreak(Append(acc, _parse_email(mbox[i])),
                                             ServerFetch(mbox, i, readonly),
                                             Tail(ids), outcomes, readonly)
                  IN  [rest EXCEPT !.sent = <<"FETCH">> \o rest.sent]
             ELSE [emails |-> acc,
                   mailbox |-> IF delivered THEN ServerFetch(mbox, i, readonly) ELSE mbox,
                   sent |-> <<"FETCH">>]

\* for i, email_id in enumerate(email_ids, 1): the list, the folder and the
\* commands after the loop
RECURSIVE FetchLoop(_, _, _, _, _)
FetchLoop(acc, mbox, ids, outcomes, readonly) ==
    IF ids = <<>> THEN [emails |-> acc, mailbox |-> mbox, sent |-> <<>>]
    ELSE LET i == Head(ids)
             delivered == outcomes[i] \in {"OK", "parse_none"}
             rest == FetchLoop(IF outcomes[i] = "OK"
                               THEN Append(acc, _parse_email(mbox[i]))
                               ELSE acc,
                               IF delivered THEN ServerFetch(mbox, i, readonly) ELSE mbox,
                               Tail(ids), outcomes, readonly)
         IN  [rest EXCEPT !.sent = <<"FETCH">> \o rest.sent]

\* an outer handler that lets the exception go on to the caller
fetch_failed_raise(exc) ==
    [status |-> exc, value |-> <<>>, count |-> 0, error_logged |-> FALSE]

\* except Exception as e: print(...); return []
fetch_failed(exc) ==
    [status |-> "ok", value |-> <<>>, count |-> 0, error_logged |-> TRUE]

\* fetch_emails: what it returns, the commands it sent, the folder afterwards
fetch_emails(mbox, limit, since_date, fault, outcomes) ==
    LET readonly == select_readonly
        loop == FetchLoop(<<>>, mbox, SelectIds(Len(mbox), limit), outcomes, readonly)
        opened == <<"LOGIN", select_command(readonly)>>
    IN  CASE fault = "connect" ->
               [result |-> fetch_failed("error"), sent |-> <<>>, mailbox |-> mbox]
          [] fault = "login" ->
               [result |-> fetch_failed("error"), sent |-> <<"LOGIN">>, mailbox |-> mbox]
          [] fault = "select" ->
               \* the answer of select is not looked at; search is illegal
               \* in the state the session is left in and raises unsent
               [result |-> fetch_failed("error"), sent |-> opened, mailbox |-> mbox]
          [] fault = "search_raises" ->
               [result |-> fetch_failed("error"),
                sent |-> opened \o <<"SEARCH">>, mailbox |-> mbox]
          [] fault = "search_NO" ->
               \* if status != 'OK': self._log(...); return []
               [result |-> [status |-> "ok", value |-> <<>>, count |-> 0,
                            error_logged |-> TRUE],
                sent |-> opened \o <<"SEARCH">>, mailbox |-> mbox]
          [] fault = "close" ->
               [result |-> fetch_failed("error"),
                sent |-> opened \o <<"SEARCH">> \o loop.sent \o <<"CLOSE">>,
                mailbox |-> loop.mailbox]
          [] fault = "logout" ->
               [result |-> fetch_failed("error"),
                sent |-> opened \o <<"SEARCH">> \o loop.sent \o <<"CLOSE", "LOGOUT">>,
                mailbox |-> loop.mailbox]
          [] OTHER ->
               [result |-> [status |-> "ok", value |-> loop.emails, count |-> 0,
                            error_logged |-> FALSE],
                sent |-> opened \o <<"SEARCH">> \o loop.sent \o <<"CLOSE", "LOGOUT">>,
                mailbox |-> loop.mailbox]

\* the server on SEARCH ALL or SEARCH (SINCE date): how many messages match
SearchCount(mbox, since_date) ==
    Cardinality({i \in 1..Len(mbox) :
                    since_date = 0 \/ mbox[i].date.t >= since_date})

\* except Exception as e: print(...); return 0
count_failed == [status |-> "ok", value |-> <<>>, count |-> 0, error_logged |-> TRUE]

\* count_emails: what it returns, the commands it sent, the folder afterwards
count_emails(mbox, since_date, fault) ==
    LET opened == <<"LOGIN", select_command(select_readonly)>>
    IN  CASE fault = "connect" ->
               [result |-> count_failed, sent |-> <<>>, mailbox |-> mbox]
          [] fault = "login" ->
               [result |-> count_failed, sent |-> <<"LOGIN">>, mailbox |-> mbox]
          [] fault = "select" ->
               [result |-> count_failed, sent |-> opened, mailbox |-> mbox]
          [] fault = "search_raises" ->
               [result |-> count_failed, sent |-> opened \o <<"SEARCH">>, mailbox |-> mbox]
          [] fault = "close" ->
               [result |-> count_failed,
                sent |-> opened \o <<"SEARCH", "CLOSE">>, mailbox |-> mbox]
          [] fault = "logout" ->
               [result |-> count_failed,
                sent |-> opened \o <<"SEARCH", "CLOSE", "LOGOUT">>, mailbox |-> mbox]
          [] OTHER ->
               \* the status of search is dropped (_, messages = ...): on NO
               \* the words of the server's text are counted
               [result |-> [status |-> "ok", value |-> <<>>,
                            count |-> IF fault = "search_NO"
                                      THEN Len(<<"SEARCH", "failed">>)
                                      ELSE SearchCount(mbox, since_date),
                            error_logged |-> FALSE],
                sent |-> opened \o <<"SEARCH", "CLOSE", "LOGOUT">>, mailbox |-> mbox]

\* where the session of list_folders fails: nowhere, IMAP4_SSL raises, login
\* raises, list raises, list answers NO, logout raises
ListFaults == {"none", "connect", "login", "list_raises", "list_NO", "logout"}

\* the lines of the server's answer to LIST: the folder name at the end,
\* between double quotes or bare
ListLines ==
    <<[name |-> "INBOX", quoted |-> TRUE],
      [name |-> "Archive", quoted |-> FALSE],
      [name |-> "Spam", quoted |-> FALSE]>>

\* folder.decode('utf-8').split('"')[-1] is empty for a line that ends with
\* a double quote, and the folder is skipped; the names with SPAM, TRASH,
\* JUNK, DELETED, SENT or DRAFTS in them are left out
IncludedFolder(line) ==
    ~line.quoted /\ line.name \notin {"Spam", "Trash", "Junk", "Deleted", "Sent", "Drafts"}

\* list_folders: what it returns and the commands it sent
list_folders(fault) ==
    LET failed == [status |-> "ok", value |-> <<>>, count |-> 0, error_logged |-> TRUE]
        folder_list == SelectSeq(ListLines, IncludedFolder)
    IN  CASE fault = "connect" -> [result |-> failed, sent |-> <<>>]
          [] fault = "login" -> [result |-> failed, sent |-> <<"LOGIN">>]
          [] fault = "list_raises" -> [result |-> failed, sent |-> <<"LOGIN", "LIST">>]
          [] fault = "list_NO" ->
               \* if status != 'OK': self._log(...); return []
               [result |-> failed, sent |-> <<"LOGIN", "LIST">>]
          [] fault = "logout" ->
               [result |-> failed, sent |-> <<"LOGIN", "LIST", "LOGOUT">>]
          [] OTHER ->
               [result |-> [status |-> "ok",
                            value |-> [i \in 1..Len(folder_list) |-> folder_list[i].name],
                            count |-> Len(folder_list), error_logged |-> FALSE],
                sent |-> <<"LOGIN", "LIST", "LOGOUT">>]

InitFetch ==
    /\ mailbox \in Mailboxes
    /\ imap = <<>>
    /\ call = NoCall
    /\ fetched = NoFetch
    /\ NoMerge
    /\ NoFile
    /\ NoScorer
    /\ NoAnalysis
    /\ NoDates
    /\ NoMessage

\* main, line 900: processor.fetch_emails(folder, limit=args.limit, since_date=args.since)
CallFetchEmails ==
    /\ call.op = "none"
    /\ \E limit \in Limits, since_date \in SinceDates, fault \in SessionFaults,
          outcomes \in SeqsOfLen(MessageOutcomes, Len(mailbox)) :
        LET r == fetch_emails(mailbox, limit, since_date, fault, outcomes)
        IN  /\ call' = [op |-> "fetch_emails", limit |-> limit,
                        since_date |-> since_date, fault |-> fault,
                        outcomes |-> outcomes]
            /\ fetched' = r.result
            /\ imap' = r.sent
            /\ mailbox' = r.mailbox
    /\ UNCHANGED <<dateVars, mergeVars, saveVars, scoreVars, analyzeVars, bodyVars>>

\* processor.count_emails(folder, since_date)
CallCountEmails ==
    /\ call.op = "none"
    /\ \E since_date \in SinceDates, fault \in SessionFaults :
        LET r == count_emails(mailbox, since_date, fault)
        IN  /\ call' = [op |-> "count_emails", limit |-> 0,
                        since_date |-> since_date, fault |-> fault,
                        outcomes |-> <<>>]
            /\ fetched' = r.result
            /\ imap' = r.sent
            /\ mailbox' = r.mailbox
    /\ UNCHANGED <<dateVars, mergeVars, saveVars, scoreVars, analyzeVars, bodyVars>>

\* main, line 846: available_folders = processor.list_folders()
CallListFolders ==
    /\ call.op = "none"
    /\ \E fault \in ListFaults :
        LET r == list_folders(fault)
        IN  /\ call' = [op |-> "list_folders", limit |-> 0, since_date |-> 0,
                        fault |-> fault, outcomes |-> <<>>]
            /\ fetched' = r.result
            /\ imap' = r.sent
    /\ UNCHANGED <<dateVars, mailbox, mergeVars, saveVars, scoreVars, analyzeVars, bodyVars>>

\* the call is over; the next one opens a session of its own
ReturnFromCall ==
    /\ call.op # "none"
    /\ call' = NoCall
    /\ fetched' = NoFetch
    /\ imap' = <<>>
    /\ UNCHANGED <<dateVars, mailbox, mergeVars, saveVars, scoreVars, analyzeVars, bodyVars>>

NextFetch ==
    CallFetchEmails \/ CallCountEmails \/ CallListFolders \/ ReturnFromCall

SpecFetch == InitFetch /\ [][NextFetch]_vars

----------------------------------------------------------------------------
(* SpecTools: the collection file of a folder under email_processor and    *)
(* under the two maintenance scripts that open it for writing,             *)
(* update_scores.py and fix_json.py.                                       *)

\* scoring_config.json with the contact_bonus section alone
ToolsConfig ==
    [EmptyConfig EXCEPT
        !.contact_bonus = CHOOSE section \in ContactBonusSections : section.present]

\* bodies with and without a CR LF line end inside, and one that names the
\* organization of the contact
ToolBodies == {<<"I">>, <<"p", "\r", "\n", "q">>, <<"o">>}

ToolRawMessages ==
    [message_id : {"<a>", "<b>"},
     date : {Rfc2822Date(t) : t \in Times},
     subject : Subjects,
     from : Froms,
     to : {<<"y", "@">>},
     body : ToolBodies,
     is_reply : {FALSE}]

\* _parse_email: email_data with its score, as fetch_emails appends it
ParseScored(cfg, bl, dir, email_message) ==
    LET m == [message_id |-> email_message.message_id,
              date |-> _parse_email(email_message).date,
              subject |-> email_message.subject,
              from |-> email_message.from,
              to |-> email_message.to,
              body |-> email_message.body,
              is_reply |-> email_message.is_reply,
              is_from_contact |-> IsFromContact(dir, email_message.from),
              importance_score |-> 0]
    IN  [m EXCEPT !.importance_score = _calculate_importance_score(cfg, bl, dir, m)]

\* score_emails(emails)
score_emails(cfg, bl, dir, es) ==
    [i \in 1..Len(es) |->
        [es[i] EXCEPT !.importance_score =
            _calculate_importance_score(cfg, bl, dir, es[i])]]

\* update_scores.process_file with the processor of update_scores.main,
\* EmailProcessor(verbose=True), whose contacts are those of contacts.json
process_file(cfg, bl, file) ==
    IF ~file.exists \/ ~file.valid \/ file.emails = <<>>
    THEN file
    ELSE [file EXCEPT !.emails = score_emails(cfg, bl, ParsedContacts, file.emails)]

\* body.replace('\r\n', '\n').replace('\r', '\n')
RECURSIVE FixLineTerminators(_)
FixLineTerminators(text) ==
    IF text = <<>> THEN <<>>
    ELSE IF Head(text) = "\r"
    THEN <<"\n">> \o FixLineTerminators(
                        IF Len(text) >= 2 /\ text[2] = "\n"
                        THEN Tail(Tail(text)) ELSE Tail(text))
    ELSE <<Head(text)>> \o FixLineTerminators(Tail(text))

\* the dates fix_json_file takes as valid
FixValidDates(es) ==
    {parse_date(es[i].date).t :
        i \in {k \in 1..Len(es) : es[k].date # None /\ parse_date(es[k].date).ok}}

\* fix_json.fix_json_file on a collection file
fix_json_file(file) ==
    IF ~file.exists \/ ~file.valid
    THEN file
    ELSE LET fixed == [i \in 1..Len(file.emails) |->
                          [file.emails[i] EXCEPT
                              !.body = FixLineTerminators(@),
                              !.date = IF @ # None /\ parse_date(@).ok
                                       THEN IsoDate(parse_date(@).t) ELSE @]]
         IN  [file EXCEPT
                 !.emails = fixed,
                 !.summary.date_range =
                     IF FixValidDates(file.emails) # {}
                     THEN [oldest |-> SetMin(FixValidDates(file.emails)),
                           newest |-> SetMax(FixValidDates(file.emails))]
                     ELSE @]

\* email_processor run with or without -v: contacts loaded or None
InitTools ==
    /\ scoring_config = ToolsConfig
    /\ blacklist = <<>>
    /\ contacts \in ContactDirectories
    /\ email_data = <<>>
    /\ score = NoScore
    /\ NoFile
    /\ NoMerge
    /\ NoAnalysis
    /\ NoDates
    /\ NoMessage
    /\ NoSession

\* main, lines 897-908: one message fetched, scored and saved
ProcessFolderScored ==
    /\ pc = "main"
    /\ Len(output_file.emails) < MaxBatch
    /\ \E raw \in ToolRawMessages, dump_ok \in BOOLEAN :
        LET batch == score_emails(scoring_config, blacklist, contacts,
                         <<ParseScored(scoring_config, blacklist, contacts, raw)>>)
            r == save_to_json(output_file, batch, dump_ok)
        IN  /\ emails' = batch
            /\ output_file' = r.file
            /\ saved' = r.saved
    /\ pc' = "saved"
    /\ UNCHANGED <<dateVars, mergeVars, scoreVars, analyzeVars, bodyVars, fetchVars>>

\* update_scores.main on the folder's file
UpdateScores ==
    /\ pc \in {"saved", "fixed"}
    /\ output_file' = process_file(scoring_config, blacklist, output_file)
    /\ pc' = "rescored"
    /\ UNCHANGED <<dateVars, emails, saved, mergeVars, scoreVars, analyzeVars, bodyVars, fetchVars>>

\* fix_json.main on the folder's file
FixJsonFile ==
    /\ pc \in {"saved", "rescored"}
    /\ output_file' = fix_json_file(output_file)
    /\ pc' = "fixed"
    /\ UNCHANGED <<dateVars, emails, saved, mergeVars, scoreVars, analyzeVars, bodyVars, fetchVars>>

\* the next run of email_processor
NextRunTools ==
    /\ pc \in {"saved", "rescored", "fixed"}
    /\ pc' = "main"
    /\ emails' = <<>>
    /\ saved' = Outcome("not_called", 0)
    /\ UNCHANGED <<dateVars, output_file, mergeVars, scoreVars, analyzeVars, bodyVars, fetchVars>>

NextTools == ProcessFolderScored \/ UpdateScores \/ FixJsonFile \/ NextRunTools

SpecTools == InitTools /\ [][NextTools]_vars

----------------------------------------------------------------------------
(* SpecDate: parse_date of fix_json.py and of check_json.py applied to the *)
(* date strings of a file, one after the other.                            *)

\* most date strings handed to parse_date in one behaviour
MaxDates == 2

DateTexts ==
    {None, LiteralNone, Garbage, YearOverflow}
        \cup UNION {{Rfc2822Date(t), Rfc2822NoZone(t), IsoDate(t), Iso8601Z(t),
                     Iso8601Naive(t), HeaderLine(t), PatternOffset(t),
                     PatternZoneName(t)} : t \in Times}

DateTextLists == BoundedSeq(DateTexts, MaxDates)

InitDate ==
    /\ date_texts \in DateTextLists
    /\ parsed_dates = <<>>
    /\ NoFile
    /\ NoMerge
    /\ NoScorer
    /\ NoAnalysis
    /\ NoMessage
    /\ NoSession

\* fix_json_file, line 134: date_obj = parse_date(date_str)
FixJsonParseDate ==
    /\ Len(parsed_dates) < Len(date_texts)
    /\ parsed_dates' =
          Append(parsed_dates,
                 [by |-> "fix_json",
                  result |-> parse_date(date_texts[Len(parsed_dates) + 1])])
    /\ UNCHANGED <<date_texts, mergeVars, saveVars, scoreVars, analyzeVars,
                   bodyVars, fetchVars>>

\* check_json_file, line 67: date = parse_date(email['date'])
CheckJsonParseDate ==
    /\ Len(parsed_dates) < Len(date_texts)
    /\ parsed_dates' =
          Append(parsed_dates,
                 [by |-> "check_json",
                  result |-> check_json_parse_date(date_texts[Len(parsed_dates) + 1])])
    /\ UNCHANGED <<date_texts, mergeVars, saveVars, scoreVars, analyzeVars,
                   bodyVars, fetchVars>>

NextDate == FixJsonParseDate \/ CheckJsonParseDate

SpecDate == InitDate /\ [][NextDate]_vars

----------------------------------------------------------------------------
(* SpecRecover: _parse_email on messages whose Message-ID may carry a      *)
(* timestamp.  Instants are integers of any size here.                     *)

\* the instant of the Date headers of SpecRecover
HeaderInstant == Integer(FALSE, <<"9">>)

RecoverDates ==
    {None, Garbage, Rfc2822Date(HeaderInstant), Rfc2822NoZone(HeaderInstant)}

RecoverRawMessages ==
    [message_id : TimestampIds \cup {NoneHeader, "", "<a>"}, date : RecoverDates]

InitRecover ==
    /\ mime_message \in RecoverRawMessages
    /\ NoDates
    /\ NoFile
    /\ NoMerge
    /\ NoScorer
    /\ NoAnalysis
    /\ NoSession

\* fetch_emails, line 494: email_data = self._parse_email(email_message)
ParseHeaders ==
    /\ email_data = <<>>
    /\ email_data' = _parse_email(mime_message)
    /\ UNCHANGED <<mime_message, scoring_config, blacklist, contacts, score,
                   mergeVars, saveVars, analyzeVars, fetchVars, dateVars>>

NextRecover == ParseHeaders

SpecRecover == InitRecover /\ [][NextRecover]_vars

----------------------------------------------------------------------------
(* Claims about the scorer, checked under SpecScore. *)

Scored == score.status \in {"parsed", "rescored"}

\* the blacklist lines found in the text, and the distinct terms among them
MatchingLines ==
    {i \in 1..Len(blacklist) : Contains(TextToCheck(email_data), blacklist[i])}
MatchingTerms == {blacklist[i] : i \in MatchingLines}

\* what the rules other than the contact rules add up to
NonContactScore ==
    FinancialBonus(scoring_config, email_data)
    + ReceiptsBonus(scoring_config, email_data)
    + KeywordBonus(scoring_config, email_data)
    - BlacklistPenalty * Cardinality(MatchingLines)
    + ReplyBonus(scoring_config, email_data)

\* C6: whenever the to header contains any configured billing address, the
\* score returned is exactly the billing rule's configured score, whatever the
\* other rules would contribute.
C6_BillingShortCircuits ==
    (/\ Scored
     /\ scoring_config.billing_addresses.present
     /\ AnyIn(scoring_config.billing_addresses.addresses, email_data.to))
        => score.value = scoring_config.billing_addresses.score

\* C7 as stated: with an empty scoring configuration the scorer returns 0 for
\* every message, whatever the blacklist and the contact directory contain.
C7_EmptyConfigScoresZero ==
    (Scored /\ scoring_config = EmptyConfig) => score.value = 0

\* C7 amended: with an empty scoring configuration no configured rule and no
\* contact rule contributes: the scorer returns minus 2 for each blacklist line
\* found in the text, so 0 exactly when no blacklist line matches, whatever
\* the contact directory contains.
C7_EmptyConfigScoresOnlyBlacklist ==
    (Scored /\ scoring_config = EmptyConfig)
        => score.value = 0 - BlacklistPenalty * Cardinality(MatchingLines)

\* an empty configuration, a loaded directory with a matching sender, a reply,
\* and a blacklist line found in the text
C7_Witness ==
    /\ Scored
    /\ scoring_config = EmptyConfig
    /\ contacts.present
    /\ SenderName(email_data) \in contacts.names
    /\ email_data.is_reply
    /\ MatchingLines # {}
    /\ score.value < 0

\* C8: when the billing rule does not fire, the score is reduced by exactly 2
\* for each distinct blacklist term that occurs in the lower-cased
\* subject+from+body, once per term: k distinct matching terms subtract 2k.
C8_BlacklistPenaltyOncePerTerm ==
    (Scored /\ ~BillingFires(scoring_config, email_data))
        => score.value =
             _calculate_importance_score(scoring_config, <<>>, contacts, email_data)
             - BlacklistPenalty * Cardinality(MatchingTerms)

\* the name bonus as the claim words it
ExpectedNameBonus ==
    LET display == Lower(Strip(BeforeAngle(email_data.from)))
        section == scoring_config.contact_bonus
    IN  IF display \in contacts.names
        THEN section.full_name_match
        ELSE (IF \E tok \in Split(display) : tok \in contacts.first_names
              THEN section.first_name_match ELSE 0)
             + (IF \E tok \in Split(display) : tok \in contacts.last_names
                THEN section.last_name_match ELSE 0)

\* the from-contact and organization bonuses of the contact rule
ExpectedOtherContactBonus ==
    (IF email_data.is_from_contact
     THEN scoring_config.contact_bonus.from_contact ELSE 0)
    + (IF \E org \in contacts.organizations : Contains(TextToCheck(email_data), org)
       THEN scoring_config.contact_bonus.organization_match ELSE 0)

C10_ScoreIndependentOfHistory ==
    Scored =>
        /\ score.value =
             _calculate_importance_score(scoring_config, blacklist, contacts,
                                         [email_data EXCEPT !.importance_score = 0])
        /\ email_data.importance_score = score.value

\* a message scored again by score_emails while carrying a score other than 0
C10_Witness ==
    /\ score.status = "rescored"
    /\ ~BillingFires(scoring_config, email_data)
    /\ email_data.importance_score > 0

----------------------------------------------------------------------------
(* Claims about save_to_json, checked under Spec. *)

StoredIds == {output_file.emails[k].message_id : k \in 1..Len(output_file.emails)}

\* C4: a message whose date field is absent does not abort the batch:
\* save_to_json on a batch holding such a message together with other
\* messages still merges, summarizes and persists all of them (the write
\* itself not failing), the malformed one carrying an absent date.
C4_AbsentDateDoesNotAbortBatch ==
    (/\ pc = "saved"
     /\ saved.status # "error_dump"
     /\ Len(emails) >= 2
     /\ \E i \in 1..Len(emails) : emails[i].date = None)
        => /\ saved.status = "ok"
           /\ output_file.exists /\ output_file.valid
           /\ \A i \in 1..Len(emails) : emails[i].message_id \in StoredIds
           /\ output_file.summary.total_emails = Len(output_file.emails)

\* C5: the persisted collection is never partially written: whatever a
\* save_to_json call does, the file afterwards holds the complete previous
\* contents or the complete new document.
C5_NeverPartiallyWritten ==
    [][\/ output_file' = output_file
       \/ output_file'.exists /\ output_file'.valid]_vars

----------------------------------------------------------------------------
(* Claims about _merge_emails, checked under SpecMerge. *)

Count(s, m) == Cardinality({i \in 1..Len(s) : s[i] = m})

\* C1 as stated: for every list X and every list Y, merge(X, []) = X,
\* merge(X, X) = X and merge(merge(X, Y), Y) = merge(X, Y), as sequences
\* (stated of the calls that return).
C1_MergeIdempotentOnAnyList ==
    merged.status = "ok" =>
        /\ new_emails = <<>> => merged.value = existing_emails
        /\ new_emails = existing_emails => merged.value = existing_emails
        /\ _merge_emails(merged.value, new_emails) = merged

\* C1 amended: for every list R that a merge returned, merge(R, []) = R and
\* merge(R, R) = R, and merging the same incoming list Y into R = merge(X, Y)
\* once more returns R: merge(merge(X, Y), Y) = merge(X, Y).
C1_MergeIdempotentOnResults ==
    merged.status = "ok" =>
        /\ _merge_emails(merged.value, <<>>) = merged
        /\ _merge_emails(merged.value, merged.value) = merged
        /\ _merge_emails(merged.value, new_emails) = merged

\* a merge that appended a message and reordered the list, with two equal keys
C1_Witness ==
    /\ merged.status = "ok"
    /\ Len(merged.value) > Len(existing_emails)
    /\ Len(existing_emails) >= 2
    /\ merged.value # existing_emails \o new_emails
    /\ \E i, j \in 1..Len(merged.value) :
        i # j /\ get_date(merged.value[i]) = get_date(merged.value[j])

\* C2: a message of existing_emails whose non-empty message_id an incoming
\* message shares stays in the result, and the incoming copy does not enter
\* it: the result holds every such message exactly as often as existing_emails
\* did, over any sequence of merges.
C2_ExistingCopySurvives ==
    merged.status = "ok" =>
        \A m \in MergeMessages :
            (m.message_id # "" /\ m.message_id \in ExistingIds(existing_emails))
                => Count(merged.value, m) = Count(existing_emails, m)

\* an incoming message shares a non-empty message_id with an existing one and
\* differs from every existing copy
C2_Witness ==
    /\ merged.status = "ok"
    /\ \E i \in 1..Len(new_emails) :
        /\ new_emails[i].message_id # ""
        /\ new_emails[i].message_id \in ExistingIds(existing_emails)
        /\ \A k \in 1..Len(existing_emails) : existing_emails[k] # new_emails[i]

\* C3: the result of a merge is sorted by resolved message date, newest
\* first, and every message whose date is absent or unparseable comes after
\* every message with a parseable date.
C3_SortedByResolvedDate ==
    merged.status = "ok" =>
        \A i, j \in 1..Len(merged.value) :
            i < j =>
                LET di == parse_date(merged.value[i].date)
                    dj == parse_date(merged.value[j].date)
                IN  /\ dj.ok => di.ok
                    /\ (di.ok /\ dj.ok) => di.t >= dj.t

----------------------------------------------------------------------------
(* Claims about analyze_emails, checked under SpecAnalyze. *)

Analyzed == pc = "analyzed" /\ stats.status = "ok"

Collection == output_file.emails

\* the root token of a message as the claim words it
ExpectedRoot(email) ==
    IF email.in_reply_to # NoneHeader /\ email.in_reply_to # ""
    THEN email.in_reply_to
    ELSE IF ~email.references.none /\ LStrip(email.references.text) # <<>>
    THEN FirstToken(LStrip(email.references.text))[1]
    ELSE email.message_id

\* the conversation of the claim: A without reply headers, B in reply to A,
\* C with References "A B" and no In-Reply-To
IsA(email) ==
    /\ email.message_id = "<a>"
    /\ email.in_reply_to = NoneHeader
    /\ email.references = NoReferences

IsB(email) == email.message_id = "<b>" /\ email.in_reply_to = "<a>"

IsC(email) ==
    /\ email.message_id = "<c>"
    /\ email.in_reply_to = NoneHeader
    /\ email.references = ReferencesHeader(<<"<a>", " ", " ", "<b>">>)

HoldsABC ==
    /\ \E i \in 1..Len(Collection) : IsA(Collection[i])
    /\ \E i \in 1..Len(Collection) : IsB(Collection[i])
    /\ \E i \in 1..Len(Collection) : IsC(Collection[i])

\* C11: each message is filed under the root token that is its in_reply_to if
\* non-empty, else the first whitespace-delimited token of its references if
\* non-empty, else its own message_id, with no second lookup through the
\* root's own headers; for A, B (in reply to A) and C (References "A B")
\* the three are one thread under A and none is filed under B.
C11_ThreadRootResolution ==
    Analyzed =>
        /\ DOMAIN stats.thread_sizes =
               {ExpectedRoot(Collection[i]) : i \in 1..Len(Collection)}
        /\ \A r \in DOMAIN stats.thread_sizes :
               stats.thread_sizes[r] =
                   Cardinality({i \in 1..Len(Collection) :
                                   ExpectedRoot(Collection[i]) = r})
        /\ (HoldsABC /\ Len(Collection) = 3)
               => stats.thread_sizes = [r \in {"<a>"} |-> 3]

\* A, B and C analyzed together
C11_Witness ==
    /\ Analyzed
    /\ HoldsABC
    /\ stats.thread_sizes["<a>"] = 3

\* a message bears reply references
BearsReplyReferences(email) ==
    \/ email.in_reply_to # NoneHeader /\ email.in_reply_to # ""
    \/ ~email.references.none /\ Split(email.references.text) # {}

\* some other message of the collection references message i
ReferencedByOther(i) ==
    \E k \in 1..Len(Collection) :
        /\ k # i
        /\ \/ Collection[k].in_reply_to = Collection[i].message_id
           \/ /\ ~Collection[k].references.none
              /\ <<Collection[i].message_id>> \in Split(Collection[k].references.text)

\* C12: every message bearing reply references is counted as a reply; every
\* message lacking them is counted as replied_to exactly when some other
\* message of the collection references it, else as not_replied_to; the three
\* counts add up to the number of messages.
C12_ReplyDirection ==
    Analyzed =>
        /\ stats.reply_stats.replies =
               Cardinality({i \in 1..Len(Collection) :
                               BearsReplyReferences(Collection[i])})
        /\ stats.reply_stats.replied_to =
               Cardinality({i \in 1..Len(Collection) :
                               ~BearsReplyReferences(Collection[i])
                               /\ ReferencedByOther(i)})
        /\ stats.reply_stats.not_replied_to =
               Cardinality({i \in 1..Len(Collection) :
                               ~BearsReplyReferences(Collection[i])
                               /\ ~ReferencedByOther(i)})
        /\ stats.reply_stats.replies + stats.reply_stats.replied_to
               + stats.reply_stats.not_replied_to = Len(Collection)

\* the message a reply refers to: its in_reply_to, else its first reference
ReferencedId(email) ==
    IF email.in_reply_to # NoneHeader /\ email.in_reply_to # ""
    THEN email.in_reply_to
    ELSE FirstToken(LStrip(email.references.text))[1]

\* the replies whose original is in the collection with both dates parsed,
\* and the time between the two
Originals(i) ==
    {k \in 1..Len(Collection) :
        /\ Collection[k].message_id = ReferencedId(Collection[i])
        /\ Collection[k].date.fmt = "iso8601"
        /\ Collection[i].date.fmt = "iso8601"}

MeasurableReplies ==
    {i \in 1..Len(Collection) :
        BearsReplyReferences(Collection[i]) /\ Originals(i) # {}}

Delta(i) ==
    Collection[i].date.t - Collection[SetMin(Originals(i))].date.t

\* C13: a latency sample is recorded for a reply only if its original is in
\* the collection under exactly the referenced message_id, both dates parse
\* and the reply is strictly later: the samples are the positive deltas of
\* such replies, one each, and no sample is zero or negative.
C13_LatencySamplesPositive ==
    Analyzed =>
        /\ \A k \in 1..Len(stats.thread_times) : stats.thread_times[k] > 0
        /\ Len(stats.thread_times) =
               Cardinality({i \in MeasurableReplies : Delta(i) > 0})
        /\ \A i \in MeasurableReplies :
               Delta(i) > 0 =>
                   \E k \in 1..Len(stats.thread_times) :
                       stats.thread_times[k] = Delta(i)

\* one reply gave a sample and another, with a delta of zero or less, none
C13_Witness ==
    /\ Analyzed
    /\ Len(stats.thread_times) = 1
    /\ \E i \in MeasurableReplies : Delta(i) <= 0

\* M1 (10:00) and M2 (11:00, in reply to M1) as they arrive; the instants 1
\* and 2 are one hour apart
M1 ==
    [message_id |-> "<a>", in_reply_to |-> NoneHeader,
     references |-> NoReferences, date |-> Rfc2822Date(1)]

M2 ==
    [message_id |-> "<b>", in_reply_to |-> "<a>",
     references |-> NoReferences, date |-> Rfc2822Date(2)]

ParsedM1M2 == <<ParseThreadHeaders(M1), ParseThreadHeaders(M2)>>

\* C14: parsing M1 and M2, saving the two into an empty collection and
\* analyzing the result gives exactly 2 persisted messages (the write itself
\* not failing), M2 counted as the one reply, exactly one latency sample of
\* one hour, and a single thread under M1's identifier of size 2.
C14_EndToEnd ==
    /\ [][(/\ pc = "main"
           /\ output_file.emails = <<>>
           /\ emails' = ParsedM1M2
           /\ saved'.status # "error_dump")
              => /\ saved'.status = "ok"
                 /\ Len(output_file'.emails) = 2
                 /\ \A i \in 1..2 :
                        \E k \in 1..2 : output_file'.emails[k] = ParsedM1M2[i]]_vars
    /\ []((/\ pc = "analyzed"
           /\ Len(Collection) = 2
           /\ \A i \in 1..2 : \E k \in 1..2 : Collection[k] = ParsedM1M2[i])
              => /\ stats.status = "ok"
                 /\ stats.reply_stats.replies = 1
                 /\ stats.thread_times = <<1>>
                 /\ stats.thread_sizes = [r \in {"<a>"} |-> 2])

\* the two saved by one call into a collection that was empty, and analyzed
C14_Witness ==
    /\ Analyzed
    /\ emails = ParsedM1M2
    /\ Len(Collection) = 2
    /\ stats.thread_times = <<1>>

----------------------------------------------------------------------------
(* Claims about the body of a parsed message, checked under SpecBody. *)

\* the text/plain and text/html parts that have a text, in walk order
PlainParts ==
    {i \in 1..Len(mime_message.parts) :
        /\ mime_message.parts[i].content_type = "text/plain"
        /\ mime_message.parts[i].text # <<>>}

HtmlParts ==
    {i \in 1..Len(mime_message.parts) :
        /\ mime_message.parts[i].content_type = "text/html"
        /\ mime_message.parts[i].text # <<>>}

\* C15: walking the parts of a multipart message in order, the body is the
\* cleaned text of the first text/plain part that has one, whatever
\* text/plain parts follow; the body comes from a text/html part only if the
\* message has no text/plain part with a text.
C15_FirstPlainPartWins ==
    (email_data # <<>> /\ mime_message.is_multipart) =>
        /\ PlainParts # {} =>
               email_data.body =
                   _clean_text(mime_message.parts[SetMin(PlainParts)].text)
        /\ (HtmlParts # {} /\ \E i \in HtmlParts :
                email_data.body = _clean_text(handle(mime_message.parts[i].text)))
               => PlainParts = {}

----------------------------------------------------------------------------
(* Claims about fetch_emails and count_emails, checked under SpecFetch. *)

FetchReturned == call.op = "fetch_emails"

\* the messages of the batch: the last `limit` of the folder, or all of it
InBatch(i) ==
    /\ i \in 1..Len(mailbox)
    /\ call.limit = 0 \/ i > Len(mailbox) - call.limit

\* the normalized records of the messages of the batch that did not fail, in
\* fetch order
RECURSIVE ExpectedRecords(_)
ExpectedRecords(n) ==
    IF n = 0 THEN <<>>
    ELSE IF InBatch(n) /\ call.outcomes[n] = "OK"
    THEN Append(ExpectedRecords(n - 1),
                [message_id |-> mailbox[n].message_id,
                 date |-> IsoDate(mailbox[n].date.t)])
    ELSE ExpectedRecords(n - 1)

\* C16: when normalizing a message of the batch fails (the fetch answers
\* something other than OK, an exception is raised, or _parse_email returns
\* None), that message alone is dropped: in a session that otherwise
\* completes, fetch_emails returns exactly the normalized records of all
\* the other messages of the batch, in fetch order.
C16_SkipAndContinue ==
    (FetchReturned /\ call.fault = "none")
        => /\ fetched.status = "ok"
           /\ fetched.value = ExpectedRecords(Len(mailbox))

\* the first message of a batch of two fails and the second is returned
C16_Witness ==
    /\ FetchReturned /\ call.fault = "none"
    /\ Len(mailbox) = 2 /\ call.limit = 0
    /\ call.outcomes[1] # "OK"
    /\ call.outcomes[2] = "OK"
    /\ Len(fetched.value) = 1

\* the commands that leave the mail store as it is
ReadOnlyCommands ==
    {"LOGIN", "LIST", "EXAMINE", "SEARCH", "FETCH", "CLOSE", "LOGOUT"}

\* C18: in every session of fetch_emails and of count_emails the folder is
\* opened read-only (EXAMINE), no command that changes the store (SELECT
\* followed by a flag-setting FETCH, STORE, EXPUNGE, APPEND, COPY, DELETE) is
\* sent, and no message of the folder changes.
C18_MailStoreReadOnly ==
    /\ \A i \in 1..Len(imap) : imap[i] \in ReadOnlyCommands
    /\ \A i \in 1..Len(imap) :
           imap[i] \in {"SEARCH", "FETCH", "CLOSE"}
               => \E k \in 1..(i - 1) : imap[k] = "EXAMINE"
    /\ \A k \in 1..Len(mailbox) : ~mailbox[k].seen

\* a session that fetched every message of a folder of two and closed
C18_Witness ==
    /\ FetchReturned /\ call.fault = "none"
    /\ Len(mailbox) = 2
    /\ Len(fetched.value) = 2
    /\ imap = <<"LOGIN", "EXAMINE", "SEARCH", "FETCH", "FETCH", "CLOSE", "LOGOUT">>

C20_SinceDateFilters ==
    (FetchReturned /\ call.since_date # 0)
        => \A k \in 1..Len(fetched.value) :
               fetched.value[k].date.t >= call.since_date

----------------------------------------------------------------------------
(* Claims about the writers of the collection file, checked under          *)
(* SpecTools.                                                              *)

\* C17: the message list and the scores of a persisted collection change
\* only in the merge/save step of email_processor: a step that leaves the
\* file with other emails than it had is a save_to_json step.
C17_SaveIsSoleWriter ==
    [][output_file'.emails # output_file.emails
          => (pc = "main" /\ pc' = "saved")]_vars

----------------------------------------------------------------------------
(* Claims about the summary of save_to_json, checked under Spec. *)

\* the instants of the stored dates that the date normalizer parses
ParseableInstants(es) ==
    {parse_date(es[i].date).t :
        i \in {k \in 1..Len(es) : parse_date(es[k].date).ok}}

\* C21: the date range of the summary written by save_to_json spans exactly
\* the validly-dated messages of the merged result: when some stored date
\* parses, oldest is the minimum and newest the maximum of the dates that
\* parse.
C21_DateRangeSpansValidDates ==
    (output_file.exists /\ output_file.valid
        /\ ParseableInstants(output_file.emails) # {})
    => output_file.summary.date_range =
          [oldest |-> SetMin(ParseableInstants(output_file.emails)),
           newest |-> SetMax(ParseableInstants(output_file.emails))]

----------------------------------------------------------------------------
(* Claims about parse_date, checked under SpecDate. *)

\* C22: date parsing is total and timezone-safe: whatever the input string
\* and whichever step of the chain gave the value, parse_date returns a
\* timezone-aware instant or returns absent; it raises nothing and returns
\* no naive instant.
C22_ParseDateTotalAndAware ==
    \A i \in 1..Len(parsed_dates) :
        /\ parsed_dates[i].result.exc = "none"
        /\ parsed_dates[i].result.ok => parsed_dates[i].result.aware

----------------------------------------------------------------------------
(* Claims about the merge inside save_to_json, checked under Spec. *)

\* a save_to_json call that wrote the file
SaveWrote == pc = "fetched" /\ pc' = "saved" /\ saved'.status = "ok"

\* the positions of the stored messages that carry an identifier
StoredWith(file, id) ==
    {k \in 1..Len(file.emails) : file.emails[k].message_id = id}

\* the first message of the batch that carries an identifier
FirstInBatch(id) ==
    emails[SetMin({k \in 1..Len(emails) : emails[k].message_id = id})]

\* C23: duplicates inside the incoming batch collapse to their first
\* occurrence: of the incoming messages that share a message_id the loaded
\* collection does not hold, the written collection holds exactly one, the
\* one that comes first in the batch.
C23_BatchDuplicatesCollapse ==
    [][SaveWrote
          => \A i \in 1..Len(emails) :
                emails[i].message_id \notin ExistingIds(LoadExisting(output_file))
                => /\ Cardinality(StoredWith(output_file', emails[i].message_id)) = 1
                   /\ \A k \in StoredWith(output_file', emails[i].message_id) :
                          output_file'.emails[k] = FirstInBatch(emails[i].message_id)]_vars

\* a batch of two different messages with one identifier was saved into a
\* file that did not hold it, and the first of the two is the one stored
C23_Witness ==
    /\ pc = "saved"
    /\ saved.status = "ok"
    /\ Len(emails) = 2
    /\ emails[1].message_id = emails[2].message_id
    /\ emails[1] # emails[2]
    /\ Len(output_file.emails) = 1
    /\ output_file.emails[1] = emails[1]

----------------------------------------------------------------------------
(* Claims about the date _parse_email stores, checked under SpecRecover. *)

HeadersParsed == email_data # <<>>

\* the Date header is there and parses
DateHeaderParses ==
    mime_message.date # None /\ parsedate_to_datetime(mime_message.date).ok

\* the dot-delimited segments of the identifier
IdSegments == SplitDots(Chars(mime_message.message_id))

\* the identifier has three segments or more and the third is an integer
ThirdIsInteger ==
    /\ Truthy(mime_message.message_id)
    /\ Len(IdSegments) >= 3
    /\ ParseInt(IdSegments[3]).ok

ThirdSegment == ParseInt(IdSegments[3]).n

\* t seconds, or t div 1000 when t is of millisecond magnitude
InstantOfThird ==
    IF Greater(ThirdSegment, MillisecondThreshold)
    THEN FloorDiv1000(ThirdSegment)
    ELSE ThirdSegment

\* the instants between 0001-01-01T00:00:00 and 9999-12-31T23:59:59
WithinDatetime(n) == ~Greater(n, MaxTimestamp) /\ ~Greater(MinTimestamp, n)

\* C24 as stated: with the date header absent or unparseable and an integer
\* t as the third segment of the identifier, the message instant is t
\* seconds after the epoch, or t div 1000 seconds for t > 10^12; a date
\* header that parses is the instant and the identifier is not consulted.
C24_IdentifierDateRecovery ==
    HeadersParsed
    => /\ DateHeaderParses
          => email_data.date = IsoDate(parsedate_to_datetime(mime_message.date).dt.t)
       /\ (~DateHeaderParses /\ ThirdIsInteger)
          => email_data.date = IsoDate(InstantOfThird)

\* C24, amended: the same, for the instants a datetime can hold (years 1 to
\* 9999); for an integer whose instant lies outside, and for an identifier
\* with no integer third segment, the date stays absent.
C24_IdentifierDateRecoveryInRange ==
    HeadersParsed
    => /\ DateHeaderParses
          => email_data.date = IsoDate(parsedate_to_datetime(mime_message.date).dt.t)
       /\ (~DateHeaderParses /\ ThirdIsInteger /\ WithinDatetime(InstantOfThird))
          => email_data.date = IsoDate(InstantOfThird)
       /\ (~DateHeaderParses /\ ~(ThirdIsInteger /\ WithinDatetime(InstantOfThird)))
          => email_data.date = None

\* a third segment of exactly 10^12 was read as seconds, beyond the year
\* 9999, and no date was stored
C24_Witness ==
    /\ HeadersParsed
    /\ ~DateHeaderParses
    /\ ThirdIsInteger
    /\ ThirdSegment = MillisecondThreshold
    /\ email_data.date = None

\* the messages the file holds
StoredMessages == {output_file.emails[k] : k \in 1..Len(output_file.emails)}

\* C25: persisted messages are never lost: over any sequence of
\* save_to_json calls on one output file, every message stored before a
\* call is stored after it, whatever the load of the existing file gave, and
\* the set of persisted message_ids only grows.
C25_PersistedNeverLost ==
    [][/\ StoredMessages \subseteq StoredMessages'
       /\ StoredIds \subseteq StoredIds']_vars

\* C26: the count of new emails that save_to_json reports is the number of
\* messages the merge appended, the messages of the written collection that
\* were not in the collection loaded from the file; it is positive whenever
\* an incoming message has a message_id not yet persisted.
C26_NewCountIsAppended ==
    [][SaveWrote
          => /\ saved'.new_count
                  = Len(output_file'.emails) - Len(LoadExisting(output_file))
             /\ (\E i \in 1..Len(emails) :
                    emails[i].message_id \notin ExistingIds(LoadExisting(output_file)))
                => saved'.new_count > 0]_vars

----------------------------------------------------------------------------
(* Claims about identifiers in _merge_emails, checked under SpecMerge. *)

\* the messages of a list that carry the empty identifier
EmptyIdMessages(s) == {s[i] : i \in {k \in 1..Len(s) : s[k].message_id = ""}}

\* C27: deduplication applies to non-empty message_ids only: distinct
\* messages with an empty message_id are all kept by a merge, whether they
\* are in existing, in incoming, or one in each.
C27_EmptyIdsNotDeduplicated ==
    merged.status = "ok"
    => EmptyIdMessages(existing_emails) \cup EmptyIdMessages(new_emails)
          \subseteq EmptyIdMessages(merged.value)

----------------------------------------------------------------------------
(* Claims about the summary of the collection file, checked under          *)
(* SpecTools.                                                              *)

\* C28: in every persisted collection file, after any sequence of
\* save_to_json, update_scores.process_file and fix_json.fix_json_file,
\* summary.total_emails is the number of entries of emails and the high,
\* medium and low importance counts of the summary are the numbers of
\* stored emails with importance_score > 5, in 0..5 and < 0.
C28_SummaryConsistent ==
    (output_file.exists /\ output_file.valid)
    => /\ output_file.summary.total_emails = Len(output_file.emails)
       /\ output_file.summary.importance_scores
             = ImportanceScores(output_file.emails)

----------------------------------------------------------------------------
(* Claims about the threads of analyze_emails, checked under SpecAnalyze. *)

\* the sum of a counter over a set of its keys
RECURSIVE CounterSum(_, _)
CounterSum(counter, keys) ==
    IF keys = {} THEN 0
    ELSE LET r == CHOOSE k \in keys : TRUE
         IN  counter[r] + CounterSum(counter, keys \ {r})

\* C29: threads partition the collection: after the thread pass every
\* message belongs to one root token, the thread sizes sum to the number of
\* messages, and the reply count of each thread is at most its size.
C29_ThreadsPartition ==
    Analyzed
    => /\ \A i \in 1..Len(Collection) :
             ExpectedRoot(Collection[i]) \in DOMAIN stats.thread_sizes
       /\ CounterSum(stats.thread_sizes, DOMAIN stats.thread_sizes) = Len(Collection)
       /\ \A r \in DOMAIN stats.thread_reply_counts :
             /\ r \in DOMAIN stats.thread_sizes
             /\ stats.thread_reply_counts[r] <= stats.thread_sizes[r]

\* an analysis of two threads or more, one of them holding a reply and a
\* message that is no reply
C29_Witness ==
    /\ Analyzed
    /\ Cardinality(DOMAIN stats.thread_sizes) >= 2
    /\ \E r \in DOMAIN stats.thread_reply_counts :
          /\ stats.thread_reply_counts[r] >= 1
          /\ stats.thread_reply_counts[r] < stats.thread_sizes[r]

----------------------------------------------------------------------------
(* Claims about the IMAP session, checked under SpecFetch. *)

\* the operation has returned and its login had succeeded
ReturnedAfterLogin ==
    call.op # "none" /\ call.fault \notin {"connect", "login"}

\* C30: every IMAP connection on which login succeeded in list_folders,
\* fetch_emails or count_emails is logged out before the operation returns,
\* on every path: normal completion, a list or search status other than OK,
\* and an exception raised after login.
C30_SessionReleased ==
    ReturnedAfterLogin => \E k \in 1..Len(imap) : imap[k] = "LOGOUT"

====
